---- MODULE Spec2Model ----
(***************************************************************************)
(* tlparse: the single-pass ingestion loop of src/main.rs.                 *)
(*                                                                         *)
(* The input file is a sequence of physical lines.  Each loop iteration    *)
(* pulls one line, matches the glog header, decodes the JSON envelope,     *)
(* applies the rank filter, reassembles and verifies the payload and       *)
(* dispatches the event fields.  The state is the peekable line iterator,  *)
(* the counters, the rank baseline, the stack trie, the intern table, the  *)
(* directory index and the output directory on disk.                       *)
(*                                                                         *)
(* A line is [tab, hdr, rest]: whether its first character is a tab, the   *)
(* glog header text it carries (empty when it carries none) and the text   *)
(* after that.  The regex and serde_json are external libraries; their     *)
(* results on the lines of the catalogue below are tabulated (captures,    *)
(* from_str), and Md5 holds the real MD5 digests of the payloads that the  *)
(* catalogue's continuation lines can form.  The header step is also       *)
(* modelled on its own over lines given character by character, with       *)
(* re_glog as a matcher (match_at, re_glog_captures).                      *)
(***************************************************************************)
EXTENDS Integers, Sequences, FiniteSets, TLC

VARIABLES
    lines,          \* the input file: reader.lines()
    iter,           \* number of lines the peekable iterator has yielded
    pc,             \* "loop" while in the while-let loop, "done" after the report
                    \* ("match" while the header step runs on its own)
    stats,          \* Stats
    expected_rank,  \* Option<Option<u32>>
    stack_trie,     \* arena of StackTrieNode, root at index 1
    INTERN_TABLE,   \* the global id -> string table
    directory,      \* FxHashMap<Option<CompileId>, Vec<PathBuf>>
    fs,             \* the output directory: subdirectories and files
    payload,        \* the payload buffer of the latest surviving record (line 325);
                    \* in the header step, the payload slice of line 285
    sink,           \* history: the fs calls made by the loop, in order
    log,            \* history: one entry per loop iteration
    report          \* IndexContext handed to the template

vars == <<lines, iter, pc, stats, expected_rank, stack_trie, INTERN_TABLE,
          directory, fs, payload, sink, log, report>>

(***************************************************************************)
(* Bounds of the model: the longest input file of each specification.      *)
(***************************************************************************)
MaxLines == 3
MaxRankLines == 4
MaxPayloadLines == 4
MaxChecksumLines == 3
MaxTrieLines == 3
MaxInternLines == 3
MaxRestLen == 2
MaxLiveLines == 3

\* Option<T>: None is the empty tuple, Some(x) the one-element tuple.
None == <<>>
Some(x) == <<x>>

\* Result<T, E>
Ok(v) == [ok |-> TRUE, val |-> v]
Err == [ok |-> FALSE]

SeqsUpTo(S, n) == UNION {[1..k -> S] : k \in 0..n}

(***************************************************************************)
(* The catalogue of lines.  L_*: text lines; R_*, P_*, K_*, T_*, N_*: a    *)
(* glog header followed by JSON text.                                      *)
(***************************************************************************)
GlogHeader == "V0102 03:04:05.000006 1234 torch/_dynamo/convert_frame.py:42] "

L_noise == [tab |-> FALSE, hdr |-> "", rest |-> "ghi"]
L_tab_abc == [tab |-> TRUE, hdr |-> "", rest |-> "abc"]
L_tab_def == [tab |-> TRUE, hdr |-> "", rest |-> "def"]
L_tab_empty == [tab |-> TRUE, hdr |-> "", rest |-> ""]
L_tab_graph == [tab |-> TRUE, hdr |-> "", rest |-> "graph body"]
L_tab_hello == [tab |-> TRUE, hdr |-> "", rest |-> "hello"]
L_badsev == [tab |-> FALSE, hdr |-> "X0102 03:04:05.000006 1234 torch/_dynamo/convert_frame.py:42] ", rest |-> "{}"]
R_badjson == [tab |-> FALSE, hdr |-> GlogHeader, rest |-> "{"]
R_badtype == [tab |-> FALSE, hdr |-> GlogHeader, rest |-> "{\"rank\": \"zero\"}"]
R_empty == [tab |-> FALSE, hdr |-> GlogHeader, rest |->
    "{}"]
R_rank0_stack == [tab |-> FALSE, hdr |-> GlogHeader, rest |->
    "{\"rank\": 0, \"compile_stack\": [{\"filename\": 7, \"line\": 1, \"name\": \"<module>\"}]}"]
R_rank0_str == [tab |-> FALSE, hdr |-> GlogHeader, rest |->
    "{\"rank\": 0, \"str\": [\"/data/users/me/fbcode#link-tree/torch/nn.py\", 7]}"]
R_rank0_cid == [tab |-> FALSE, hdr |-> GlogHeader, rest |->
    "{\"rank\": 0, \"frame_id\": 2, \"frame_compile_id\": 0, \"attempt\": 1}"]
R_rank0_graph == [tab |-> FALSE, hdr |-> GlogHeader, rest |->
    "{\"rank\": 0, \"frame_id\": 1, \"frame_compile_id\": 0, \"attempt\": 0, \"has_payload\": \"84eb0090114b7da7a28209e71259f4cc\", \"dynamo_output_graph\": true}"]
R_rank0_graph_flip == [tab |-> FALSE, hdr |-> GlogHeader, rest |->
    "{\"rank\": 0, \"frame_id\": 1, \"frame_compile_id\": 0, \"attempt\": 0, \"has_payload\": \"94eb0090114b7da7a28209e71259f4cc\", \"dynamo_output_graph\": false}"]
R_rank0_graph_unknown == [tab |-> FALSE, hdr |-> GlogHeader, rest |->
    "{\"rank\": 0, \"dynamo_output_graph\": false}"]
R_rank1_stack == [tab |-> FALSE, hdr |-> GlogHeader, rest |->
    "{\"rank\": 1, \"compile_stack\": [{\"filename\": 7, \"line\": 1, \"name\": \"<module>\"}, {\"filename\": 7, \"line\": 2, \"name\": \"g\"}]}"]
R_rank1_graph == [tab |-> FALSE, hdr |-> GlogHeader, rest |->
    "{\"rank\": 1, \"frame_id\": 1, \"frame_compile_id\": 0, \"attempt\": 0, \"has_payload\": \"84eb0090114b7da7a28209e71259f4cc\", \"dynamo_output_graph\": true}"]
R_rank2 == [tab |-> FALSE, hdr |-> GlogHeader, rest |->
    "{\"rank\": 2}"]
R_rank2_stack == [tab |-> FALSE, hdr |-> GlogHeader, rest |->
    "{\"rank\": 2, \"compile_stack\": [{\"filename\": 7, \"line\": 1, \"name\": \"<module>\"}]}"]
R_rank5 == [tab |-> FALSE, hdr |-> GlogHeader, rest |->
    "{\"rank\": 5}"]
R_rank5_str == [tab |-> FALSE, hdr |-> GlogHeader, rest |->
    "{\"rank\": 5, \"str\": [\"bar.py\", 7]}"]
P_hash == [tab |-> FALSE, hdr |-> GlogHeader, rest |->
    "{\"has_payload\": \"4a64fcaa8e6f841c27b1b8d4614f13e4\"}"]
P_hash_rank1 == [tab |-> FALSE, hdr |-> GlogHeader, rest |->
    "{\"rank\": 1, \"has_payload\": \"900150983cd24fb0d6963f7d28e17f72\"}"]
P_stack == [tab |-> FALSE, hdr |-> GlogHeader, rest |->
    "{\"compile_stack\": [{\"filename\": 7, \"line\": 1, \"name\": \"<module>\"}]}"]
K_good == [tab |-> FALSE, hdr |-> GlogHeader, rest |->
    "{\"frame_id\": 1, \"frame_compile_id\": 0, \"attempt\": 0, \"has_payload\": \"5d41402abc4b2a76b9719d911017c592\", \"dynamo_output_graph\": true}"]
K_flip == [tab |-> FALSE, hdr |-> GlogHeader, rest |->
    "{\"frame_id\": 1, \"frame_compile_id\": 0, \"attempt\": 0, \"has_payload\": \"4d41402abc4b2a76b9719d911017c592\", \"dynamo_output_graph\": true}"]
K_upper == [tab |-> FALSE, hdr |-> GlogHeader, rest |->
    "{\"compile_stack\": [{\"filename\": 7, \"line\": 1, \"name\": \"<module>\"}], \"has_payload\": \"5D41402ABC4B2A76B9719D911017C592\", \"str\": [\"foo.py\", 7]}"]
K_odd == [tab |-> FALSE, hdr |-> GlogHeader, rest |->
    "{\"frame_id\": 1, \"frame_compile_id\": 0, \"attempt\": 0, \"has_payload\": \"5d41402abc4b2a76b9719d911017c59\", \"dynamo_output_graph\": true}"]
K_long == [tab |-> FALSE, hdr |-> GlogHeader, rest |->
    "{\"frame_id\": 1, \"frame_compile_id\": 0, \"attempt\": 0, \"has_payload\": \"5d41402abc4b2a76b9719d911017c59200\", \"dynamo_output_graph\": true}"]
K_short == [tab |-> FALSE, hdr |-> GlogHeader, rest |->
    "{\"frame_id\": 1, \"frame_compile_id\": 0, \"attempt\": 0, \"has_payload\": \"5d41402abc4b2a76b9719d911017c5\", \"dynamo_output_graph\": true}"]
K_emptyhash == [tab |-> FALSE, hdr |-> GlogHeader, rest |->
    "{\"has_payload\": \"\", \"dynamo_output_graph\": true}"]
K_rank1 == [tab |-> FALSE, hdr |-> GlogHeader, rest |->
    "{\"rank\": 1, \"has_payload\": \"5d41402abc4b2a76b9719d911017c592\", \"dynamo_output_graph\": true}"]
T_ABC == [tab |-> FALSE, hdr |-> GlogHeader, rest |->
    "{\"compile_stack\": [{\"filename\": 7, \"line\": 1, \"name\": \"<module>\"}, {\"filename\": 7, \"line\": 2, \"name\": \"g\"}, {\"filename\": 8, \"line\": 3, \"name\": \"h\"}]}"]
T_ABD == [tab |-> FALSE, hdr |-> GlogHeader, rest |->
    "{\"compile_stack\": [{\"filename\": 7, \"line\": 1, \"name\": \"<module>\"}, {\"filename\": 7, \"line\": 2, \"name\": \"g\"}, {\"filename\": 8, \"line\": 3, \"name\": \"k\"}]}"]
T_A == [tab |-> FALSE, hdr |-> GlogHeader, rest |->
    "{\"compile_stack\": [{\"filename\": 7, \"line\": 1, \"name\": \"<module>\"}]}"]
T_A2B == [tab |-> FALSE, hdr |-> GlogHeader, rest |->
    "{\"compile_stack\": [{\"filename\": 9, \"line\": 1, \"name\": \"<module>\"}, {\"filename\": 7, \"line\": 2, \"name\": \"g\"}]}"]
T_A3 == [tab |-> FALSE, hdr |-> GlogHeader, rest |->
    "{\"compile_stack\": [{\"filename\": 7, \"line\": 5, \"name\": \"<module>\"}]}"]
T_nil == [tab |-> FALSE, hdr |-> GlogHeader, rest |->
    "{\"compile_stack\": []}"]
T_rank1 == [tab |-> FALSE, hdr |-> GlogHeader, rest |->
    "{\"rank\": 1, \"compile_stack\": [{\"filename\": 7, \"line\": 1, \"name\": \"<module>\"}, {\"filename\": 7, \"line\": 2, \"name\": \"g\"}]}"]
N_foo7 == [tab |-> FALSE, hdr |-> GlogHeader, rest |->
    "{\"str\": [\"foo.py\", 7]}"]
N_bar7 == [tab |-> FALSE, hdr |-> GlogHeader, rest |->
    "{\"str\": [\"bar.py\", 7]}"]
N_link8 == [tab |-> FALSE, hdr |-> GlogHeader, rest |->
    "{\"str\": [\"/data/users/me/fbcode#link-tree/torch/nn.py\", 8]}"]
N_amp8 == [tab |-> FALSE, hdr |-> GlogHeader, rest |->
    "{\"str\": [\"<string>\", 8]}"]
N_rank1_7 == [tab |-> FALSE, hdr |-> GlogHeader, rest |->
    "{\"rank\": 1, \"str\": [\"other.py\", 7]}"]
N_stack_AC == [tab |-> FALSE, hdr |-> GlogHeader, rest |->
    "{\"compile_stack\": [{\"filename\": 7, \"line\": 1, \"name\": \"<module>\"}, {\"filename\": 8, \"line\": 3, \"name\": \"h\"}]}"]
N_stack_A2 == [tab |-> FALSE, hdr |-> GlogHeader, rest |->
    "{\"compile_stack\": [{\"filename\": 9, \"line\": 1, \"name\": \"<module>\"}]}"]
N_stack_str == [tab |-> FALSE, hdr |-> GlogHeader, rest |->
    "{\"compile_stack\": [{\"filename\": 7, \"line\": 2, \"name\": \"g\"}], \"str\": [\"late.py\", 7]}"]
L_tab_record == [tab |-> TRUE, hdr |-> GlogHeader, rest |-> "{}"]

from_str(s) ==
  CASE s = "{" ->
        Err
    [] s = "{\"rank\": \"zero\"}" ->
        Err
    [] s = "{}" ->
        Ok([rank |-> None,
             compile_id |-> None,
             has_payload |-> None,
             compile_stack |-> None,
             dynamo_output_graph |-> None,
             str |-> None])
    [] s = "{\"rank\": 0, \"compile_stack\": [{\"filename\": 7, \"line\": 1, \"name\": \"<module>\"}]}" ->
        Ok([rank |-> Some(0),
             compile_id |-> None,
             has_payload |-> None,
             compile_stack |-> Some(<<[filename |-> 7, line |-> 1, name |-> "<module>"]>>),
             dynamo_output_graph |-> None,
             str |-> None])
    [] s = "{\"rank\": 0, \"str\": [\"/data/users/me/fbcode#link-tree/torch/nn.py\", 7]}" ->
        Ok([rank |-> Some(0),
             compile_id |-> None,
             has_payload |-> None,
             compile_stack |-> None,
             dynamo_output_graph |-> None,
             str |-> Some(<<"/data/users/me/fbcode#link-tree/torch/nn.py", 7>>)])
    [] s = "{\"rank\": 0, \"frame_id\": 2, \"frame_compile_id\": 0, \"attempt\": 1}" ->
        Ok([rank |-> Some(0),
             compile_id |-> Some([frame_id |-> 2, frame_compile_id |-> 0, attempt |-> 1]),
             has_payload |-> None,
             compile_stack |-> None,
             dynamo_output_graph |-> None,
             str |-> None])
    [] s = "{\"rank\": 0, \"frame_id\": 1, \"frame_compile_id\": 0, \"attempt\": 0, \"has_payload\": \"84eb0090114b7da7a28209e71259f4cc\", \"dynamo_output_graph\": true}" ->
        Ok([rank |-> Some(0),
             compile_id |-> Some([frame_id |-> 1, frame_compile_id |-> 0, attempt |-> 0]),
             has_payload |-> Some(<<"8", "4", "e", "b", "0", "0", "9", "0", "1", "1", "4", "b", "7", "d", "a", "7", "a", "2", "8", "2", "0", "9", "e", "7", "1", "2", "5", "9", "f", "4", "c", "c">>),
             compile_stack |-> None,
             dynamo_output_graph |-> Some(TRUE),
             str |-> None])
    [] s = "{\"rank\": 0, \"frame_id\": 1, \"frame_compile_id\": 0, \"attempt\": 0, \"has_payload\": \"94eb0090114b7da7a28209e71259f4cc\", \"dynamo_output_graph\": false}" ->
        Ok([rank |-> Some(0),
             compile_id |-> Some([frame_id |-> 1, frame_compile_id |-> 0, attempt |-> 0]),
             has_payload |-> Some(<<"9", "4", "e", "b", "0", "0", "9", "0", "1", "1", "4", "b", "7", "d", "a", "7", "a", "2", "8", "2", "0", "9", "e", "7", "1", "2", "5", "9", "f", "4", "c", "c">>),
             compile_stack |-> None,
             dynamo_output_graph |-> Some(FALSE),
             str |-> None])
    [] s = "{\"rank\": 0, \"dynamo_output_graph\": false}" ->
        Ok([rank |-> Some(0),
             compile_id |-> None,
             has_payload |-> None,
             compile_stack |-> None,
             dynamo_output_graph |-> Some(FALSE),
             str |-> None])
    [] s = "{\"rank\": 1, \"compile_stack\": [{\"filename\": 7, \"line\": 1, \"name\": \"<module>\"}, {\"filename\": 7, \"line\": 2, \"name\": \"g\"}]}" ->
        Ok([rank |-> Some(1),
             compile_id |-> None,
             has_payload |-> None,
             compile_stack |-> Some(<<[filename |-> 7, line |-> 1, name |-> "<module>"], [filename |-> 7, line |-> 2, name |-> "g"]>>),
             dynamo_output_graph |-> None,
             str |-> None])
    [] s = "{\"rank\": 1, \"frame_id\": 1, \"frame_compile_id\": 0, \"attempt\": 0, \"has_payload\": \"84eb0090114b7da7a28209e71259f4cc\", \"dynamo_output_graph\": true}" ->
        Ok([rank |-> Some(1),
             compile_id |-> Some([frame_id |-> 1, frame_compile_id |-> 0, attempt |-> 0]),
             has_payload |-> Some(<<"8", "4", "e", "b", "0", "0", "9", "0", "1", "1", "4", "b", "7", "d", "a", "7", "a", "2", "8", "2", "0", "9", "e", "7", "1", "2", "5", "9", "f", "4", "c", "c">>),
             compile_stack |-> None,
             dynamo_output_graph |-> Some(TRUE),
             str |-> None])
    [] s = "{\"rank\": 2}" ->
        Ok([rank |-> Some(2),
             compile_id |-> None,
             has_payload |-> None,
             compile_stack |-> None,
             dynamo_output_graph |-> None,
             str |-> None])
    [] s = "{\"rank\": 2, \"compile_stack\": [{\"filename\": 7, \"line\": 1, \"name\": \"<module>\"}]}" ->
        Ok([rank |-> Some(2),
             compile_id |-> None,
             has_payload |-> None,
             compile_stack |-> Some(<<[filename |-> 7, line |-> 1, name |-> "<module>"]>>),
             dynamo_output_graph |-> None,
             str |-> None])
    [] s = "{\"rank\": 5}" ->
        Ok([rank |-> Some(5),
             compile_id |-> None,
             has_payload |-> None,
             compile_stack |-> None,
             dynamo_output_graph |-> None,
             str |-> None])
    [] s = "{\"rank\": 5, \"str\": [\"bar.py\", 7]}" ->
        Ok([rank |-> Some(5),
             compile_id |-> None,
             has_payload |-> None,
             compile_stack |-> None,
             dynamo_output_graph |-> None,
             str |-> Some(<<"bar.py", 7>>)])
    [] s = "{\"has_payload\": \"4a64fcaa8e6f841c27b1b8d4614f13e4\"}" ->
        Ok([rank |-> None,
             compile_id |-> None,
             has_payload |-> Some(<<"4", "a", "6", "4", "f", "c", "a", "a", "8", "e", "6", "f", "8", "4", "1", "c", "2", "7", "b", "1", "b", "8", "d", "4", "6", "1", "4", "f", "1", "3", "e", "4">>),
             compile_stack |-> None,
             dynamo_output_graph |-> None,
             str |-> None])
    [] s = "{\"rank\": 1, \"has_payload\": \"900150983cd24fb0d6963f7d28e17f72\"}" ->
        Ok([rank |-> Some(1),
             compile_id |-> None,
             has_payload |-> Some(<<"9", "0", "0", "1", "5", "0", "9", "8", "3", "c", "d", "2", "4", "f", "b", "0", "d", "6", "9", "6", "3", "f", "7", "d", "2", "8", "e", "1", "7", "f", "7", "2">>),
             compile_stack |-> None,
             dynamo_output_graph |-> None,
             str |-> None])
    [] s = "{\"compile_stack\": [{\"filename\": 7, \"line\": 1, \"name\": \"<module>\"}]}" ->
        Ok([rank |-> None,
             compile_id |-> None,
             has_payload |-> None,
             compile_stack |-> Some(<<[filename |-> 7, line |-> 1, name |-> "<module>"]>>),
             dynamo_output_graph |-> None,
             str |-> None])
    [] s = "{\"frame_id\": 1, \"frame_compile_id\": 0, \"attempt\": 0, \"has_payload\": \"5d41402abc4b2a76b9719d911017c592\", \"dynamo_output_graph\": true}" ->
        Ok([rank |-> None,
             compile_id |-> Some([frame_id |-> 1, frame_compile_id |-> 0, attempt |-> 0]),
             has_payload |-> Some(<<"5", "d", "4", "1", "4", "0", "2", "a", "b", "c", "4", "b", "2", "a", "7", "6", "b", "9", "7", "1", "9", "d", "9", "1", "1", "0", "1", "7", "c", "5", "9", "2">>),
             compile_stack |-> None,
             dynamo_output_graph |-> Some(TRUE),
             str |-> None])
    [] s = "{\"frame_id\": 1, \"frame_compile_id\": 0, \"attempt\": 0, \"has_payload\": \"4d41402abc4b2a76b9719d911017c592\", \"dynamo_output_graph\": true}" ->
        Ok([rank |-> None,
             compile_id |-> Some([frame_id |-> 1, frame_compile_id |-> 0, attempt |-> 0]),
             has_payload |-> Some(<<"4", "d", "4", "1", "4", "0", "2", "a", "b", "c", "4", "b", "2", "a", "7", "6", "b", "9", "7", "1", "9", "d", "9", "1", "1", "0", "1", "7", "c", "5", "9", "2">>),
             compile_stack |-> None,
             dynamo_output_graph |-> Some(TRUE),
             str |-> None])
    [] s = "{\"compile_stack\": [{\"filename\": 7, \"line\": 1, \"name\": \"<module>\"}], \"has_payload\": \"5D41402ABC4B2A76B9719D911017C592\", \"str\": [\"foo.py\", 7]}" ->
        Ok([rank |-> None,
             compile_id |-> None,
             has_payload |-> Some(<<"5", "D", "4", "1", "4", "0", "2", "A", "B", "C", "4", "B", "2", "A", "7", "6", "B", "9", "7", "1", "9", "D", "9", "1", "1", "0", "1", "7", "C", "5", "9", "2">>),
             compile_stack |-> Some(<<[filename |-> 7, line |-> 1, name |-> "<module>"]>>),
             dynamo_output_graph |-> None,
             str |-> Some(<<"foo.py", 7>>)])
    [] s = "{\"frame_id\": 1, \"frame_compile_id\": 0, \"attempt\": 0, \"has_payload\": \"5d41402abc4b2a76b9719d911017c59\", \"dynamo_output_graph\": true}" ->
        Ok([rank |-> None,
             compile_id |-> Some([frame_id |-> 1, frame_compile_id |-> 0, attempt |-> 0]),
             has_payload |-> Some(<<"5", "d", "4", "1", "4", "0", "2", "a", "b", "c", "4", "b", "2", "a", "7", "6", "b", "9", "7", "1", "9", "d", "9", "1", "1", "0", "1", "7", "c", "5", "9">>),
             compile_stack |-> None,
             dynamo_output_graph |-> Some(TRUE),
             str |-> None])
    [] s = "{\"frame_id\": 1, \"frame_compile_id\": 0, \"attempt\": 0, \"has_payload\": \"5d41402abc4b2a76b9719d911017c59200\", \"dynamo_output_graph\": true}" ->
        Ok([rank |-> None,
             compile_id |-> Some([frame_id |-> 1, frame_compile_id |-> 0, attempt |-> 0]),
             has_payload |-> Some(<<"5", "d", "4", "1", "4", "0", "2", "a", "b", "c", "4", "b", "2", "a", "7", "6", "b", "9", "7", "1", "9", "d", "9", "1", "1", "0", "1", "7", "c", "5", "9", "2", "0", "0">>),
             compile_stack |-> None,
             dynamo_output_graph |-> Some(TRUE),
             str |-> None])
    [] s = "{\"frame_id\": 1, \"frame_compile_id\": 0, \"attempt\": 0, \"has_payload\": \"5d41402abc4b2a76b9719d911017c5\", \"dynamo_output_graph\": true}" ->
        Ok([rank |-> None,
             compile_id |-> Some([frame_id |-> 1, frame_compile_id |-> 0, attempt |-> 0]),
             has_payload |-> Some(<<"5", "d", "4", "1", "4", "0", "2", "a", "b", "c", "4", "b", "2", "a", "7", "6", "b", "9", "7", "1", "9", "d", "9", "1", "1", "0", "1", "7", "c", "5">>),
             compile_stack |-> None,
             dynamo_output_graph |-> Some(TRUE),
             str |-> None])
    [] s = "{\"has_payload\": \"\", \"dynamo_output_graph\": true}" ->
        Ok([rank |-> None,
             compile_id |-> None,
             has_payload |-> Some(<<>>),
             compile_stack |-> None,
             dynamo_output_graph |-> Some(TRUE),
             str |-> None])
    [] s = "{\"rank\": 1, \"has_payload\": \"5d41402abc4b2a76b9719d911017c592\", \"dynamo_output_graph\": true}" ->
        Ok([rank |-> Some(1),
             compile_id |-> None,
             has_payload |-> Some(<<"5", "d", "4", "1", "4", "0", "2", "a", "b", "c", "4", "b", "2", "a", "7", "6", "b", "9", "7", "1", "9", "d", "9", "1", "1", "0", "1", "7", "c", "5", "9", "2">>),
             compile_stack |-> None,
             dynamo_output_graph |-> Some(TRUE),
             str |-> None])
    [] s = "{\"compile_stack\": [{\"filename\": 7, \"line\": 1, \"name\": \"<module>\"}, {\"filename\": 7, \"line\": 2, \"name\": \"g\"}, {\"filename\": 8, \"line\": 3, \"name\": \"h\"}]}" ->
        Ok([rank |-> None,
             compile_id |-> None,
             has_payload |-> None,
             compile_stack |-> Some(<<[filename |-> 7, line |-> 1, name |-> "<module>"], [filename |-> 7, line |-> 2, name |-> "g"], [filename |-> 8, line |-> 3, name |-> "h"]>>),
             dynamo_output_graph |-> None,
             str |-> None])
    [] s = "{\"compile_stack\": [{\"filename\": 7, \"line\": 1, \"name\": \"<module>\"}, {\"filename\": 7, \"line\": 2, \"name\": \"g\"}, {\"filename\": 8, \"line\": 3, \"name\": \"k\"}]}" ->
        Ok([rank |-> None,
             compile_id |-> None,
             has_payload |-> None,
             compile_stack |-> Some(<<[filename |-> 7, line |-> 1, name |-> "<module>"], [filename |-> 7, line |-> 2, name |-> "g"], [filename |-> 8, line |-> 3, name |-> "k"]>>),
             dynamo_output_graph |-> None,
             str |-> None])
    [] s = "{\"compile_stack\": [{\"filename\": 9, \"line\": 1, \"name\": \"<module>\"}, {\"filename\": 7, \"line\": 2, \"name\": \"g\"}]}" ->
        Ok([rank |-> None,
             compile_id |-> None,
             has_payload |-> None,
             compile_stack |-> Some(<<[filename |-> 9, line |-> 1, name |-> "<module>"], [filename |-> 7, line |-> 2, name |-> "g"]>>),
             dynamo_output_graph |-> None,
             str |-> None])
    [] s = "{\"compile_stack\": [{\"filename\": 7, \"line\": 5, \"name\": \"<module>\"}]}" ->
        Ok([rank |-> None,
             compile_id |-> None,
             has_payload |-> None,
             compile_stack |-> Some(<<[filename |-> 7, line |-> 5, name |-> "<module>"]>>),
             dynamo_output_graph |-> None,
             str |-> None])
    [] s = "{\"compile_stack\": []}" ->
        Ok([rank |-> None,
             compile_id |-> None,
             has_payload |-> None,
             compile_stack |-> Some(<<>>),
             dynamo_output_graph |-> None,
             str |-> None])
    [] s = "{\"str\": [\"foo.py\", 7]}" ->
        Ok([rank |-> None,
             compile_id |-> None,
             has_payload |-> None,
             compile_stack |-> None,
             dynamo_output_graph |-> None,
             str |-> Some(<<"foo.py", 7>>)])
    [] s = "{\"str\": [\"bar.py\", 7]}" ->
        Ok([rank |-> None,
             compile_id |-> None,
             has_payload |-> None,
             compile_stack |-> None,
             dynamo_output_graph |-> None,
             str |-> Some(<<"bar.py", 7>>)])
    [] s = "{\"str\": [\"/data/users/me/fbcode#link-tree/torch/nn.py\", 8]}" ->
        Ok([rank |-> None,
             compile_id |-> None,
             has_payload |-> None,
             compile_stack |-> None,
             dynamo_output_graph |-> None,
             str |-> Some(<<"/data/users/me/fbcode#link-tree/torch/nn.py", 8>>)])
    [] s = "{\"str\": [\"<string>\", 8]}" ->
        Ok([rank |-> None,
             compile_id |-> None,
             has_payload |-> None,
             compile_stack |-> None,
             dynamo_output_graph |-> None,
             str |-> Some(<<"<string>", 8>>)])
    [] s = "{\"rank\": 1, \"str\": [\"other.py\", 7]}" ->
        Ok([rank |-> Some(1),
             compile_id |-> None,
             has_payload |-> None,
             compile_stack |-> None,
             dynamo_output_graph |-> None,
             str |-> Some(<<"other.py", 7>>)])
    [] s = "{\"compile_stack\": [{\"filename\": 7, \"line\": 1, \"name\": \"<module>\"}, {\"filename\": 8, \"line\": 3, \"name\": \"h\"}]}" ->
        Ok([rank |-> None,
             compile_id |-> None,
             has_payload |-> None,
             compile_stack |-> Some(<<[filename |-> 7, line |-> 1, name |-> "<module>"], [filename |-> 8, line |-> 3, name |-> "h"]>>),
             dynamo_output_graph |-> None,
             str |-> None])
    [] s = "{\"compile_stack\": [{\"filename\": 9, \"line\": 1, \"name\": \"<module>\"}]}" ->
        Ok([rank |-> None,
             compile_id |-> None,
             has_payload |-> None,
             compile_stack |-> Some(<<[filename |-> 9, line |-> 1, name |-> "<module>"]>>),
             dynamo_output_graph |-> None,
             str |-> None])
    [] s = "{\"compile_stack\": [{\"filename\": 7, \"line\": 2, \"name\": \"g\"}], \"str\": [\"late.py\", 7]}" ->
        Ok([rank |-> None,
             compile_id |-> None,
             has_payload |-> None,
             compile_stack |-> Some(<<[filename |-> 7, line |-> 2, name |-> "g"]>>),
             dynamo_output_graph |-> None,
             str |-> Some(<<"late.py", 7>>)])

Md5(s) ==
  CASE s = "" ->
        <<212, 29, 140, 217, 143, 0, 178, 4, 233, 128, 9, 152, 236, 248, 66, 126>>
    [] s = "abc" ->
        <<144, 1, 80, 152, 60, 210, 79, 176, 214, 150, 63, 125, 40, 225, 127, 114>>
    [] s = "def" ->
        <<78, 217, 64, 118, 48, 235, 16, 0, 192, 246, 182, 56, 66, 222, 250, 125>>
    [] s = "abc\nabc" ->
        <<97, 138, 97, 43, 171, 136, 229, 108, 204, 101, 208, 74, 180, 91, 172, 188>>
    [] s = "abc\ndef" ->
        <<74, 100, 252, 170, 142, 111, 132, 28, 39, 177, 184, 212, 97, 79, 19, 228>>
    [] s = "abc\n" ->
        <<11, 238, 137, 176, 122, 36, 142, 39, 200, 63, 195, 213, 149, 18, 19, 193>>
    [] s = "def\nabc" ->
        <<163, 193, 182, 219, 31, 196, 7, 209, 51, 68, 242, 83, 73, 242, 104, 163>>
    [] s = "def\ndef" ->
        <<3, 51, 78, 39, 184, 75, 4, 17, 198, 235, 97, 35, 155, 85, 97, 24>>
    [] s = "def\n" ->
        <<97, 77, 208, 233, 119, 190, 203, 76, 111, 127, 169, 158, 100, 84, 155, 18>>
    [] s = "\nabc" ->
        <<29, 7, 77, 194, 168, 127, 178, 68, 145, 24, 71, 47, 193, 23, 130, 178>>
    [] s = "\ndef" ->
        <<19, 196, 247, 168, 10, 72, 130, 154, 75, 124, 191, 94, 9, 233, 78, 74>>
    [] s = "\n" ->
        <<104, 179, 41, 218, 152, 147, 227, 64, 153, 199, 216, 173, 92, 185, 201, 64>>
    [] s = "abc\nabc\nabc" ->
        <<95, 243, 90, 96, 130, 240, 85, 13, 232, 162, 151, 193, 28, 245, 103, 240>>
    [] s = "abc\nabc\ndef" ->
        <<4, 231, 99, 89, 84, 177, 154, 126, 16, 202, 0, 139, 121, 52, 146, 13>>
    [] s = "abc\nabc\n" ->
        <<172, 185, 85, 162, 122, 202, 220, 77, 152, 178, 157, 223, 118, 36, 69, 234>>
    [] s = "abc\ndef\nabc" ->
        <<87, 86, 115, 109, 22, 163, 78, 103, 46, 192, 172, 171, 162, 40, 24, 162>>
    [] s = "abc\ndef\ndef" ->
        <<46, 122, 80, 128, 238, 42, 213, 14, 234, 226, 30, 130, 173, 11, 147, 250>>
    [] s = "abc\ndef\n" ->
        <<247, 47, 231, 136, 225, 54, 186, 158, 83, 81, 138, 250, 139, 64, 126, 172>>
    [] s = "abc\n\nabc" ->
        <<175, 191, 212, 184, 185, 0, 228, 216, 180, 161, 211, 84, 242, 153, 202, 141>>
    [] s = "abc\n\ndef" ->
        <<225, 94, 136, 243, 254, 166, 8, 109, 186, 123, 9, 226, 225, 240, 89, 63>>
    [] s = "abc\n\n" ->
        <<227, 77, 55, 135, 238, 84, 153, 117, 154, 95, 184, 149, 95, 15, 162, 255>>
    [] s = "def\nabc\nabc" ->
        <<1, 75, 184, 58, 15, 86, 209, 49, 85, 134, 144, 217, 121, 150, 245, 10>>
    [] s = "def\nabc\ndef" ->
        <<162, 70, 15, 102, 223, 240, 199, 45, 203, 183, 45, 226, 115, 229, 178, 95>>
    [] s = "def\nabc\n" ->
        <<116, 112, 58, 20, 139, 248, 26, 27, 54, 73, 50, 2, 72, 217, 192, 113>>
    [] s = "def\ndef\nabc" ->
        <<180, 135, 253, 126, 253, 98, 179, 101, 247, 189, 114, 109, 76, 194, 251, 254>>
    [] s = "def\ndef\ndef" ->
        <<2, 175, 139, 69, 169, 222, 223, 216, 155, 7, 148, 222, 225, 8, 27, 221>>
    [] s = "def\ndef\n" ->
        <<224, 50, 105, 155, 148, 44, 157, 229, 83, 38, 76, 158, 43, 248, 85, 74>>
    [] s = "def\n\nabc" ->
        <<133, 114, 138, 247, 122, 160, 98, 200, 188, 136, 178, 36, 82, 223, 234, 232>>
    [] s = "def\n\ndef" ->
        <<173, 62, 215, 111, 66, 65, 102, 177, 62, 42, 169, 0, 154, 111, 72, 241>>
    [] s = "def\n\n" ->
        <<35, 124, 152, 244, 26, 158, 67, 227, 136, 241, 103, 173, 240, 62, 247, 146>>
    [] s = "\nabc\nabc" ->
        <<59, 245, 53, 29, 201, 200, 8, 112, 225, 5, 102, 198, 175, 108, 101, 32>>
    [] s = "\nabc\ndef" ->
        <<240, 75, 111, 101, 152, 16, 31, 5, 231, 32, 111, 78, 238, 69, 55, 49>>
    [] s = "\nabc\n" ->
        <<38, 119, 66, 155, 231, 132, 252, 8, 37, 100, 244, 4, 188, 148, 87, 23>>
    [] s = "\ndef\nabc" ->
        <<203, 6, 141, 221, 168, 36, 213, 111, 51, 224, 236, 196, 176, 51, 172, 34>>
    [] s = "\ndef\ndef" ->
        <<248, 218, 210, 232, 196, 203, 231, 78, 248, 106, 222, 4, 15, 161, 41, 73>>
    [] s = "\ndef\n" ->
        <<132, 46, 66, 108, 178, 68, 201, 6, 82, 122, 225, 35, 102, 93, 157, 136>>
    [] s = "\n\nabc" ->
        <<46, 88, 192, 155, 89, 251, 74, 126, 45, 46, 9, 135, 18, 167, 148, 232>>
    [] s = "\n\ndef" ->
        <<186, 120, 45, 24, 79, 115, 250, 215, 5, 38, 17, 114, 150, 70, 27, 192>>
    [] s = "\n\n" ->
        <<225, 192, 109, 133, 174, 123, 139, 3, 43, 239, 71, 228, 46, 76, 8, 249>>
    [] s = "abc\nabc\nabc\nabc" ->
        <<12, 113, 68, 221, 247, 15, 9, 249, 29, 132, 157, 144, 32, 89, 89, 41>>
    [] s = "abc\nabc\nabc\ndef" ->
        <<160, 243, 86, 51, 24, 149, 179, 253, 214, 110, 2, 59, 4, 255, 112, 32>>
    [] s = "abc\nabc\nabc\n" ->
        <<50, 76, 7, 126, 119, 3, 52, 2, 193, 188, 111, 29, 55, 73, 213, 109>>
    [] s = "abc\nabc\ndef\nabc" ->
        <<198, 28, 98, 204, 139, 72, 234, 95, 165, 151, 243, 209, 244, 162, 169, 240>>
    [] s = "abc\nabc\ndef\ndef" ->
        <<121, 234, 103, 174, 116, 114, 84, 224, 185, 105, 161, 173, 27, 79, 18, 141>>
    [] s = "abc\nabc\ndef\n" ->
        <<251, 93, 179, 121, 176, 193, 106, 153, 93, 197, 34, 150, 161, 190, 205, 167>>
    [] s = "abc\nabc\n\nabc" ->
        <<215, 155, 23, 121, 191, 7, 211, 77, 201, 64, 82, 236, 206, 223, 240, 4>>
    [] s = "abc\nabc\n\ndef" ->
        <<202, 125, 48, 147, 11, 52, 168, 51, 231, 214, 145, 13, 0, 160, 103, 172>>
    [] s = "abc\nabc\n\n" ->
        <<111, 218, 84, 14, 5, 198, 247, 10, 90, 31, 127, 255, 177, 249, 130, 127>>
    [] s = "abc\ndef\nabc\nabc" ->
        <<198, 225, 118, 0, 23, 231, 156, 252, 149, 71, 15, 114, 163, 134, 221, 133>>
    [] s = "abc\ndef\nabc\ndef" ->
        <<227, 136, 17, 246, 101, 51, 181, 253, 161, 112, 22, 255, 216, 140, 228, 62>>
    [] s = "abc\ndef\nabc\n" ->
        <<1, 111, 7, 102, 132, 252, 177, 198, 152, 126, 105, 162, 70, 58, 205, 181>>
    [] s = "abc\ndef\ndef\nabc" ->
        <<42, 41, 180, 130, 160, 224, 73, 168, 138, 120, 89, 203, 88, 199, 143, 93>>
    [] s = "abc\ndef\ndef\ndef" ->
        <<53, 235, 105, 90, 166, 167, 170, 29, 44, 45, 23, 1, 189, 24, 107, 107>>
    [] s = "abc\ndef\ndef\n" ->
        <<151, 96, 68, 58, 253, 173, 243, 119, 137, 172, 31, 33, 47, 0, 34, 32>>
    [] s = "abc\ndef\n\nabc" ->
        <<30, 118, 170, 8, 12, 216, 97, 38, 89, 19, 212, 128, 13, 6, 216, 153>>
    [] s = "abc\ndef\n\ndef" ->
        <<134, 243, 155, 138, 28, 247, 116, 84, 62, 199, 252, 234, 203, 96, 177, 243>>
    [] s = "abc\ndef\n\n" ->
        <<216, 78, 18, 23, 16, 17, 162, 132, 116, 246, 254, 103, 168, 40, 73, 83>>
    [] s = "abc\n\nabc\nabc" ->
        <<46, 94, 78, 111, 187, 47, 61, 121, 209, 47, 249, 190, 107, 170, 45, 82>>
    [] s = "abc\n\nabc\ndef" ->
        <<31, 148, 161, 255, 246, 17, 198, 137, 220, 255, 31, 165, 156, 175, 204, 43>>
    [] s = "abc\n\nabc\n" ->
        <<149, 230, 84, 234, 41, 196, 255, 77, 175, 132, 95, 212, 13, 120, 141, 249>>
    [] s = "abc\n\ndef\nabc" ->
        <<105, 230, 47, 81, 61, 222, 52, 39, 49, 218, 87, 175, 123, 197, 136, 162>>
    [] s = "abc\n\ndef\ndef" ->
        <<145, 15, 217, 41, 70, 249, 243, 67, 3, 114, 53, 224, 234, 51, 144, 139>>
    [] s = "abc\n\ndef\n" ->
        <<60, 201, 250, 119, 223, 232, 167, 189, 38, 43, 218, 170, 75, 35, 252, 82>>
    [] s = "abc\n\n\nabc" ->
        <<194, 19, 185, 163, 64, 205, 193, 233, 17, 155, 53, 49, 26, 144, 78, 217>>
    [] s = "abc\n\n\ndef" ->
        <<146, 102, 207, 79, 143, 38, 98, 12, 59, 155, 77, 222, 102, 174, 92, 2>>
    [] s = "abc\n\n\n" ->
        <<71, 183, 27, 206, 188, 125, 151, 168, 44, 40, 90, 207, 179, 46, 133, 127>>
    [] s = "def\nabc\nabc\nabc" ->
        <<96, 128, 18, 191, 56, 136, 105, 117, 209, 87, 194, 171, 164, 58, 118, 102>>
    [] s = "def\nabc\nabc\ndef" ->
        <<5, 21, 174, 226, 183, 57, 164, 129, 93, 180, 131, 136, 221, 90, 2, 37>>
    [] s = "def\nabc\nabc\n" ->
        <<22, 50, 252, 236, 211, 23, 160, 12, 225, 131, 168, 33, 35, 235, 160, 173>>
    [] s = "def\nabc\ndef\nabc" ->
        <<140, 225, 88, 227, 29, 122, 148, 42, 46, 120, 95, 16, 198, 250, 157, 241>>
    [] s = "def\nabc\ndef\ndef" ->
        <<220, 26, 38, 6, 156, 131, 165, 80, 122, 209, 177, 5, 35, 110, 56, 97>>
    [] s = "def\nabc\ndef\n" ->
        <<73, 251, 202, 180, 166, 236, 163, 48, 159, 152, 65, 58, 135, 159, 9, 16>>
    [] s = "def\nabc\n\nabc" ->
        <<20, 223, 225, 183, 199, 43, 94, 65, 147, 158, 186, 3, 211, 168, 247, 162>>
    [] s = "def\nabc\n\ndef" ->
        <<105, 99, 206, 71, 17, 230, 5, 184, 17, 133, 237, 217, 166, 90, 197, 236>>
    [] s = "def\nabc\n\n" ->
        <<237, 208, 122, 65, 162, 23, 201, 153, 70, 165, 1, 219, 96, 199, 105, 38>>
    [] s = "def\ndef\nabc\nabc" ->
        <<248, 88, 226, 229, 241, 220, 153, 33, 125, 246, 171, 129, 215, 189, 123, 33>>
    [] s = "def\ndef\nabc\ndef" ->
        <<131, 171, 175, 130, 207, 160, 124, 172, 20, 236, 11, 76, 114, 253, 138, 165>>
    [] s = "def\ndef\nabc\n" ->
        <<188, 201, 170, 88, 29, 88, 169, 24, 1, 102, 85, 198, 150, 55, 117, 97>>
    [] s = "def\ndef\ndef\nabc" ->
        <<205, 107, 228, 127, 26, 112, 153, 206, 73, 38, 145, 143, 225, 194, 116, 151>>
    [] s = "def\ndef\ndef\ndef" ->
        <<51, 115, 58, 134, 252, 197, 110, 97, 31, 141, 215, 194, 214, 28, 154, 215>>
    [] s = "def\ndef\ndef\n" ->
        <<57, 177, 37, 3, 208, 220, 179, 64, 42, 53, 77, 164, 92, 8, 71, 165>>
    [] s = "def\ndef\n\nabc" ->
        <<226, 200, 16, 24, 56, 32, 23, 189, 86, 188, 229, 245, 41, 97, 89, 187>>
    [] s = "def\ndef\n\ndef" ->
        <<104, 76, 28, 28, 30, 69, 94, 2, 43, 223, 203, 254, 126, 73, 196, 28>>
    [] s = "def\ndef\n\n" ->
        <<73, 72, 94, 69, 27, 38, 247, 104, 76, 218, 43, 148, 178, 249, 163, 91>>
    [] s = "def\n\nabc\nabc" ->
        <<181, 104, 106, 89, 20, 95, 31, 208, 207, 249, 194, 123, 48, 197, 72, 180>>
    [] s = "def\n\nabc\ndef" ->
        <<119, 7, 70, 219, 204, 155, 181, 179, 130, 169, 218, 230, 70, 6, 99, 247>>
    [] s = "def\n\nabc\n" ->
        <<90, 56, 42, 201, 18, 132, 153, 53, 155, 143, 24, 107, 15, 15, 116, 104>>
    [] s = "def\n\ndef\nabc" ->
        <<155, 20, 56, 59, 143, 191, 181, 186, 168, 33, 50, 66, 96, 48, 47, 248>>
    [] s = "def\n\ndef\ndef" ->
        <<207, 217, 40, 136, 182, 108, 61, 119, 5, 63, 44, 202, 194, 119, 86, 151>>
    [] s = "def\n\ndef\n" ->
        <<225, 220, 13, 92, 150, 167, 128, 213, 92, 96, 202, 146, 149, 30, 209, 112>>
    [] s = "def\n\n\nabc" ->
        <<48, 225, 103, 202, 207, 55, 92, 177, 135, 46, 227, 152, 150, 207, 62, 79>>
    [] s = "def\n\n\ndef" ->
        <<116, 194, 192, 51, 219, 64, 160, 197, 91, 89, 10, 217, 201, 174, 120, 68>>
    [] s = "def\n\n\n" ->
        <<96, 32, 193, 193, 19, 75, 203, 188, 166, 151, 189, 171, 5, 238, 178, 155>>
    [] s = "\nabc\nabc\nabc" ->
        <<226, 10, 121, 247, 248, 89, 118, 14, 137, 18, 9, 139, 245, 22, 96, 255>>
    [] s = "\nabc\nabc\ndef" ->
        <<231, 98, 106, 116, 165, 5, 143, 106, 199, 59, 70, 105, 20, 125, 132, 196>>
    [] s = "\nabc\nabc\n" ->
        <<65, 5, 2, 19, 218, 48, 0, 56, 224, 151, 241, 212, 77, 147, 134, 114>>
    [] s = "\nabc\ndef\nabc" ->
        <<87, 60, 116, 133, 237, 165, 101, 45, 195, 144, 118, 92, 189, 144, 178, 184>>
    [] s = "\nabc\ndef\ndef" ->
        <<107, 68, 3, 169, 186, 178, 255, 253, 179, 40, 44, 199, 210, 159, 32, 37>>
    [] s = "\nabc\ndef\n" ->
        <<195, 157, 240, 195, 185, 194, 118, 143, 81, 36, 245, 30, 159, 44, 71, 86>>
    [] s = "\nabc\n\nabc" ->
        <<119, 104, 188, 140, 155, 88, 54, 100, 30, 209, 114, 122, 140, 128, 230, 95>>
    [] s = "\nabc\n\ndef" ->
        <<141, 180, 235, 196, 156, 173, 213, 110, 12, 0, 112, 184, 211, 92, 105, 66>>
    [] s = "\nabc\n\n" ->
        <<53, 85, 227, 93, 61, 66, 115, 221, 100, 197, 130, 59, 156, 214, 57, 176>>
    [] s = "\ndef\nabc\nabc" ->
        <<47, 62, 8, 65, 3, 144, 198, 240, 130, 101, 54, 52, 113, 244, 181, 7>>
    [] s = "\ndef\nabc\ndef" ->
        <<102, 217, 73, 73, 72, 170, 45, 186, 122, 6, 195, 236, 179, 23, 18, 28>>
    [] s = "\ndef\nabc\n" ->
        <<176, 201, 20, 105, 222, 75, 190, 193, 246, 43, 158, 190, 116, 81, 18, 161>>
    [] s = "\ndef\ndef\nabc" ->
        <<63, 184, 64, 78, 47, 249, 236, 223, 253, 42, 210, 131, 0, 26, 183, 224>>
    [] s = "\ndef\ndef\ndef" ->
        <<223, 209, 212, 16, 102, 183, 159, 217, 216, 22, 63, 165, 12, 51, 202, 229>>
    [] s = "\ndef\ndef\n" ->
        <<64, 69, 56, 249, 63, 38, 120, 11, 151, 251, 117, 254, 95, 195, 129, 142>>
    [] s = "\ndef\n\nabc" ->
        <<5, 33, 250, 162, 43, 159, 116, 241, 227, 220, 249, 195, 65, 159, 104, 150>>
    [] s = "\ndef\n\ndef" ->
        <<20, 221, 178, 239, 210, 217, 13, 34, 177, 246, 255, 14, 177, 16, 78, 235>>
    [] s = "\ndef\n\n" ->
        <<69, 17, 105, 237, 159, 2, 162, 55, 44, 89, 55, 174, 135, 90, 2, 232>>
    [] s = "\n\nabc\nabc" ->
        <<60, 61, 106, 196, 197, 102, 75, 245, 95, 17, 186, 32, 199, 144, 122, 66>>
    [] s = "\n\nabc\ndef" ->
        <<88, 180, 146, 219, 149, 3, 3, 185, 143, 207, 61, 240, 167, 8, 188, 153>>
    [] s = "\n\nabc\n" ->
        <<201, 85, 196, 150, 181, 112, 138, 247, 8, 2, 13, 224, 5, 54, 225, 83>>
    [] s = "\n\ndef\nabc" ->
        <<57, 249, 66, 18, 18, 108, 234, 185, 129, 231, 122, 244, 5, 135, 24, 149>>
    [] s = "\n\ndef\ndef" ->
        <<117, 43, 231, 153, 60, 11, 224, 249, 212, 112, 255, 247, 47, 29, 133, 128>>
    [] s = "\n\ndef\n" ->
        <<212, 81, 18, 111, 112, 15, 254, 31, 234, 200, 60, 139, 200, 212, 232, 66>>
    [] s = "\n\n\nabc" ->
        <<78, 232, 253, 28, 196, 47, 214, 210, 180, 248, 81, 169, 194, 158, 211, 46>>
    [] s = "\n\n\ndef" ->
        <<12, 59, 122, 29, 186, 183, 173, 20, 113, 225, 164, 120, 163, 252, 239, 37>>
    [] s = "\n\n\n" ->
        <<34, 40, 233, 119, 235, 234, 137, 102, 226, 121, 41, 244, 62, 57, 203, 103>>
    [] s = "graph body" ->
        <<132, 235, 0, 144, 17, 75, 125, 167, 162, 130, 9, 231, 18, 89, 244, 204>>
    [] s = "V0102 03:04:05.000006 1234 torch/_dynamo/convert_frame.py:42] {}" ->
        <<93, 3, 64, 184, 134, 185, 127, 45, 65, 113, 92, 165, 235, 19, 234, 200>>
    [] s = "graph body\ngraph body" ->
        <<38, 167, 63, 214, 132, 91, 232, 62, 40, 100, 94, 62, 64, 169, 124, 159>>
    [] s = "graph body\nV0102 03:04:05.000006 1234 torch/_dynamo/convert_frame.py:42] {}" ->
        <<207, 77, 108, 169, 181, 198, 230, 238, 78, 182, 224, 101, 236, 3, 229, 218>>
    [] s = "V0102 03:04:05.000006 1234 torch/_dynamo/convert_frame.py:42] {}\ngraph body" ->
        <<229, 37, 187, 143, 115, 65, 14, 66, 71, 168, 231, 169, 161, 74, 209, 7>>
    [] s = "V0102 03:04:05.000006 1234 torch/_dynamo/convert_frame.py:42] {}\nV0102 03:04:05.000006 1234 torch/_dynamo/convert_frame.py:42] {}" ->
        <<137, 94, 153, 53, 133, 70, 4, 201, 124, 222, 201, 135, 57, 249, 117, 170>>
    [] s = "graph body\ngraph body\ngraph body" ->
        <<242, 171, 82, 76, 113, 140, 250, 71, 113, 161, 155, 98, 139, 66, 153, 41>>
    [] s = "graph body\ngraph body\nV0102 03:04:05.000006 1234 torch/_dynamo/convert_frame.py:42] {}" ->
        <<202, 30, 174, 121, 219, 254, 74, 128, 31, 177, 56, 137, 84, 67, 176, 10>>
    [] s = "graph body\nV0102 03:04:05.000006 1234 torch/_dynamo/convert_frame.py:42] {}\ngraph body" ->
        <<197, 57, 94, 139, 198, 173, 184, 144, 208, 194, 119, 43, 111, 58, 170, 44>>
    [] s = "graph body\nV0102 03:04:05.000006 1234 torch/_dynamo/convert_frame.py:42] {}\nV0102 03:04:05.000006 1234 torch/_dynamo/convert_frame.py:42] {}" ->
        <<165, 127, 74, 201, 88, 237, 109, 187, 83, 81, 0, 220, 56, 154, 182, 200>>
    [] s = "V0102 03:04:05.000006 1234 torch/_dynamo/convert_frame.py:42] {}\ngraph body\ngraph body" ->
        <<151, 237, 237, 77, 234, 215, 1, 22, 36, 107, 47, 155, 5, 86, 250, 229>>
    [] s = "V0102 03:04:05.000006 1234 torch/_dynamo/convert_frame.py:42] {}\ngraph body\nV0102 03:04:05.000006 1234 torch/_dynamo/convert_frame.py:42] {}" ->
        <<153, 72, 13, 131, 181, 221, 131, 26, 134, 84, 247, 69, 141, 195, 30, 206>>
    [] s = "V0102 03:04:05.000006 1234 torch/_dynamo/convert_frame.py:42] {}\nV0102 03:04:05.000006 1234 torch/_dynamo/convert_frame.py:42] {}\ngraph body" ->
        <<170, 146, 204, 197, 135, 174, 166, 223, 253, 22, 56, 111, 105, 64, 249, 153>>
    [] s = "V0102 03:04:05.000006 1234 torch/_dynamo/convert_frame.py:42] {}\nV0102 03:04:05.000006 1234 torch/_dynamo/convert_frame.py:42] {}\nV0102 03:04:05.000006 1234 torch/_dynamo/convert_frame.py:42] {}" ->
        <<43, 68, 238, 61, 219, 92, 56, 154, 228, 9, 208, 22, 4, 235, 171, 186>>
    [] s = "hello" ->
        <<93, 65, 64, 42, 188, 75, 42, 118, 185, 113, 157, 145, 16, 23, 197, 146>>
    [] s = "hello\nhello" ->
        <<250, 216, 20, 251, 100, 2, 159, 83, 14, 208, 126, 5, 209, 146, 163, 140>>
    [] s = "hello\nhello\nhello" ->
        <<26, 111, 138, 190, 68, 246, 185, 197, 167, 194, 67, 92, 67, 116, 157, 234>>
    [] s = "hello\nhello\nhello\nhello" ->
        <<224, 96, 203, 87, 124, 146, 89, 47, 32, 159, 44, 160, 136, 139, 122, 4>>

simplify_filename(filename) ==
  CASE filename = "(unknown)" -> "(unknown)"
    [] filename = "/data/users/me/fbcode#link-tree/torch/nn.py" -> "torch/nn.py"
    [] filename = "bar.py" -> "bar.py"
    [] filename = "foo.py" -> "foo.py"
    [] filename = "<string>" -> "<string>"
    [] filename = "other.py" -> "other.py"
    [] filename = "late.py" -> "late.py"

encode_text(text) ==
  CASE text = "(unknown)" -> "(unknown)"
    [] text = "torch/nn.py" -> "torch/nn.py"
    [] text = "bar.py" -> "bar.py"
    [] text = "foo.py" -> "foo.py"
    [] text = "<string>" -> "&lt;string&gt;"
    [] text = "other.py" -> "other.py"
    [] text = "late.py" -> "late.py"
    [] text = "<module>" -> "&lt;module&gt;"
    [] text = "g" -> "g"
    [] text = "h" -> "h"
    [] text = "k" -> "k"

(***************************************************************************)
(* re_glog on a line given as its sequence of characters.  The pattern is  *)
(*   [VIWEC] \d{2} \d{2} ' ' \d{2} : \d{2} : \d{2} . \d{6} ' '             *)
(*   \d+ [^:]+ : \d+ \] ' ' .                                              *)
(* It is not anchored, so captures() takes the leftmost position where it  *)
(* matches.                                                                *)
(***************************************************************************)
IsDigit(c) == c \in {"0", "1", "2", "3", "4", "5", "6", "7", "8", "9"}

ChLevel == [k |-> "level"]
ChDigit == [k |-> "digit"]
ChAny == [k |-> "any"]
Lit(c) == [k |-> "lit", c |-> c]

\* the fixed-width part of the pattern, up to the space before the thread id
Stamp == <<ChLevel, ChDigit, ChDigit, ChDigit, ChDigit, Lit(" "),
           ChDigit, ChDigit, Lit(":"), ChDigit, ChDigit, Lit(":"), ChDigit, ChDigit, ChAny,
           ChDigit, ChDigit, ChDigit, ChDigit, ChDigit, ChDigit, Lit(" ")>>

ClassMatches(cl, c) ==
    CASE cl.k = "level" -> c \in {"V", "I", "W", "E", "C"}
      [] cl.k = "digit" -> IsDigit(c)
      [] cl.k = "any" -> c # "\n"
      [] cl.k = "lit" -> c = cl.c

\* the match that starts at position s: Some(start of the payload group) or
\* None.  [^:]+ cannot cross a colon and \d+ must run up to the ']', so a
\* start position has at most one match.
match_at(l, s) ==
    LET t == s + Len(Stamp)
    IN  IF t > Len(l) THEN None
        ELSE IF \E k \in 1..Len(Stamp) : ~ClassMatches(Stamp[k], l[s + k - 1]) THEN None
        ELSE IF ~IsDigit(l[t]) THEN None
        ELSE LET colons == {c \in (t + 1)..Len(l) : l[c] = ":"}
             IN  IF colons = {} THEN None
                 ELSE LET c == CHOOSE x \in colons : \A y \in colons : x <= y
                          ends == {e \in (c + 1)..Len(l) :
                                      /\ \A k \in (c + 1)..e : IsDigit(l[k])
                                      /\ e + 3 <= Len(l)
                                      /\ l[e + 1] = "]" /\ l[e + 2] = " "
                                      /\ l[e + 3] # "\n"}
                      IN  IF c < t + 2 \/ ends = {} THEN None
                          ELSE Some((CHOOSE e \in ends : TRUE) + 3)

\* re_glog.captures(&line) and caps.name("payload").unwrap().start()
re_glog_captures(l) ==
    LET starts == {s \in 1..Len(l) : match_at(l, s) # None}
    IN  IF starts = {} THEN None
        ELSE match_at(l, CHOOSE s \in starts : \A q \in starts : s <= q)

(***************************************************************************)
(* Header Matcher: what re_glog.captures(&line) and the payload slice      *)
(* &line[caps.name("payload").start()..] give.  The regex is not anchored, *)
(* so a header that follows a leading tab is found too; it needs at least  *)
(* one character after "] ".                                               *)
(***************************************************************************)
captures(line) ==
    IF line.hdr = GlogHeader /\ line.rest # "" THEN Some(line.rest) ELSE None

\* l.starts_with('\t')
starts_with_tab(line) == line.tab

\* &payload_line[1..] of a line that starts with a tab
Strip1(line) == line.hdr \o line.rest

(***************************************************************************)
(* Payload reassembly: the while-let loop over iter.next_if.               *)
(***************************************************************************)
RECURSIVE ReassembleTrailingNewline(_, _, _, _)
ReassembleTrailingNewline(ls, it, buf, first) ==
    IF it < Len(ls) /\ starts_with_tab(ls[it + 1])
    THEN ReassembleTrailingNewline(ls, it + 1, buf \o Strip1(ls[it + 1]) \o "\n", FALSE)
    ELSE [iter |-> it, payload |-> buf]

RECURSIVE Reassemble(_, _, _, _)
Reassemble(ls, it, buf, first) ==
    IF it < Len(ls) /\ starts_with_tab(ls[it + 1])
    THEN Reassemble(ls, it + 1,
                    (IF first THEN buf ELSE buf \o "\n") \o Strip1(ls[it + 1]),
                    FALSE)
    ELSE [iter |-> it, payload |-> buf]

(***************************************************************************)
(* Payload verification: base16ct::lower::decode into [0u8; 16] and the    *)
(* comparison with the digest.                                             *)
(***************************************************************************)
DigestLen == 16

HexLower == <<"0", "1", "2", "3", "4", "5", "6", "7",
              "8", "9", "a", "b", "c", "d", "e", "f">>

decode_nibble(c) ==
    IF \E i \in 1..Len(HexLower) : HexLower[i] = c
    THEN (CHOOSE i \in 1..Len(HexLower) : HexLower[i] = c) - 1
    ELSE -1

\* Ok(dst as written) or Err: odd length, more bytes than dst holds, or a
\* character that is no lowercase hex digit.
lower_decode(src, dst) ==
    IF Len(src) % 2 # 0 \/ Len(src) \div 2 > Len(dst) THEN Err
    ELSE IF \E k \in 1..Len(src) : decode_nibble(src[k]) < 0 THEN Err
    ELSE Ok([k \in 1..Len(dst) |->
                IF k <= Len(src) \div 2
                THEN decode_nibble(src[2 * k - 1]) * 16 + decode_nibble(src[2 * k])
                ELSE dst[k]])

Md5MismatchDecodedOnly(expect, buf) ==
    LET hash == Md5(buf)
        expect_buf == [k \in 1..DigestLen |-> 0]
        r == lower_decode(expect, expect_buf)
    IN  r.ok /\ r.val # hash

\* TRUE iff stats.fail_payload_md5 is incremented for declared hash `expect`
Md5Mismatch(expect, buf) ==
    LET hash == Md5(buf)
        expect_buf == [k \in 1..DigestLen |-> 0]
        r == lower_decode(expect, expect_buf)
    IN  IF r.ok THEN r.val # hash ELSE TRUE

(***************************************************************************)
(* Rank filter.                                                            *)
(***************************************************************************)
RankRejectsPresentOnly(expected, rank) ==
    expected # None /\ expected[1] # None /\ rank # None /\ expected[1] # rank

\* Some(rank) => rank != e.rank
RankRejects(expected, rank) == expected # None /\ expected[1] # rank

AdoptRankIfPresent(expected, rank) ==
    IF expected = None /\ rank # None THEN Some(rank) ELSE expected

\* None => expected_rank = Some(e.rank)
AdoptRank(expected, rank) == IF expected = None THEN Some(rank) ELSE expected

(***************************************************************************)
(* Stack trie.  The nested StackTrieNode values are held in an arena: node *)
(* 1 is the root, a node's children are its IndexMap entries in insertion  *)
(* order, each a frame and the index of the child node.                    *)
(***************************************************************************)
DefaultNode == [terminal |-> <<>>, children |-> <<>>]

EntryByName(trie, cur, frame) ==
    LET ch == trie[cur].children
    IN  IF \E i \in 1..Len(ch) : ch[i].frame.name = frame.name
        THEN [trie |-> trie,
              node |-> ch[CHOOSE i \in 1..Len(ch) : ch[i].frame.name = frame.name].node]
        ELSE [trie |-> Append([trie EXCEPT ![cur].children =
                                   Append(@, [frame |-> frame, node |-> Len(trie) + 1])],
                              DefaultNode),
              node |-> Len(trie) + 1]

\* cur.children.entry(frame).or_default(); FrameSummary derives Eq and Hash
\* over filename, line and name
Entry(trie, cur, frame) ==
    LET ch == trie[cur].children
    IN  IF \E i \in 1..Len(ch) : ch[i].frame = frame
        THEN [trie |-> trie,
              node |-> ch[CHOOSE i \in 1..Len(ch) : ch[i].frame = frame].node]
        ELSE [trie |-> Append([trie EXCEPT ![cur].children =
                                   Append(@, [frame |-> frame, node |-> Len(trie) + 1])],
                              DefaultNode),
              node |-> Len(trie) + 1]

RECURSIVE Walk(_, _, _)
Walk(trie, cur, stack) ==
    IF stack = <<>> THEN [trie |-> trie, node |-> cur]
    ELSE LET r == Entry(trie, cur, Head(stack))
         IN  Walk(r.trie, r.node, Tail(stack))

insertNonEmptyOnly(trie, stack, compile_id) ==
    IF stack = <<>> THEN trie
    ELSE LET w == Walk(trie, 1, stack)
         IN  [w.trie EXCEPT ![w.node].terminal = Append(@, compile_id)]

\* StackTrieNode::insert on the root
insert(trie, stack, compile_id) ==
    LET w == Walk(trie, 1, stack)
    IN  [w.trie EXCEPT ![w.node].terminal = Append(@, compile_id)]

(***************************************************************************)
(* Compile ids and paths.                                                  *)
(***************************************************************************)
Digit(d) == <<"0", "1", "2", "3", "4", "5", "6", "7", "8", "9">>[d + 1]

\* Display of an unsigned integer
RECURSIVE to_string(_)
to_string(n) == IF n < 10 THEN Digit(n) ELSE to_string(n \div 10) \o Digit(n % 10)

\* Display of an i32
int_to_string(n) == IF n < 0 THEN "-" \o to_string(-n) ELSE to_string(n)

(***************************************************************************)
(* Rendering of the trie.                                                  *)
(***************************************************************************)
\* intern_table.get(&id).map_or("(unknown)", |s| s.as_str())
resolve(table, id) == IF id \in DOMAIN table THEN table[id] ELSE "(unknown)"

\* impl Display for FrameSummary
FrameDisplay(frame, table) ==
    LET filename == resolve(table, frame.filename)
    IN  encode_text(simplify_filename(filename)) \o ":" \o int_to_string(frame.line)
            \o " in " \o encode_text(frame.name)

\* "{:indent$}" of the empty string
RECURSIVE Pad(_)
Pad(indent) == IF indent = 0 THEN "" ELSE " " \o Pad(indent - 1)

\* node.terminal.join("")
RECURSIVE JoinEmpty(_)
JoinEmpty(ss) == IF ss = <<>> THEN "" ELSE Head(ss) \o JoinEmpty(Tail(ss))

RECURSIVE fmt_inner_staircase(_, _, _, _, _)
fmt_inner_staircase(trie, table, node, indent, i) ==
    LET ch == trie[node].children
    IN  IF i > Len(ch) THEN ""
        ELSE Pad(indent) \o "- " \o JoinEmpty(trie[ch[i].node].terminal)
                 \o FrameDisplay(ch[i].frame, table) \o "\n"
                 \o fmt_inner_staircase(trie, table, ch[i].node, indent + 2, 1)
                 \o fmt_inner_staircase(trie, table, node, indent, i + 1)

\* StackTrieNode::fmt_inner, from the i-th child of `node` on
RECURSIVE fmt_inner_from(_, _, _, _, _)
fmt_inner_from(trie, table, node, indent, i) ==
    LET ch == trie[node].children
    IN  IF i > Len(ch) THEN ""
        ELSE LET star == JoinEmpty(trie[ch[i].node].terminal)
                 frame == FrameDisplay(ch[i].frame, table)
             IN  (IF Len(ch) > 1
                  THEN Pad(indent) \o "- " \o star \o frame \o "\n"
                       \o fmt_inner_from(trie, table, ch[i].node, indent + 2, 1)
                  ELSE Pad(indent) \o "  " \o star \o frame \o "\n"
                       \o fmt_inner_from(trie, table, ch[i].node, indent, 1))
                 \o fmt_inner_from(trie, table, node, indent, i + 1)

fmt_inner(trie, table, node, indent) == fmt_inner_from(trie, table, node, indent, 1)

\* impl Display for StackTrieNode, on the root
fmt(trie, table) == "<pre>" \o fmt_inner(trie, table, 1, 0) \o "</pre>"

\* impl Display for CompileId
CompileIdLabel(c) ==
    "[" \o to_string(c.frame_id) \o "/" \o to_string(c.frame_compile_id)
        \o (IF c.attempt # 0 THEN "_" \o to_string(c.attempt) ELSE "") \o "]"

\* the map_or of lines 314-319
CompileIdDir(compile_id) ==
    IF compile_id = None THEN "unknown"
    ELSE to_string(compile_id[1].frame_id) \o "_"
         \o to_string(compile_id[1].frame_compile_id) \o "_"
         \o to_string(compile_id[1].attempt)

\* Path::join
Join(dir, name) == dir \o "/" \o name

\* map.entry(k).or_default()
OrDefault(map, k) == IF k \in DOMAIN map THEN map ELSE map @@ (k :> <<>>)

InsertIfAbsent(map, k, v) == IF k \in DOMAIN map THEN map ELSE map @@ (k :> v)

\* map.insert(k, v)
Insert(map, k, v) == [x \in DOMAIN map \cup {k} |-> IF x = k THEN v ELSE map[x]]

\* fs::create_dir_all(out_path.join(dir))
CreateDirAll(f, dir) == [f EXCEPT !.dirs = @ \cup {dir}]

\* fs::write(out_path.join(path), data)
WriteFile(f, path, data) == [f EXCEPT !.files = Insert(@, path, data)]

CountOkEventsOnly(st, e) ==
    IF e.compile_stack # None \/ e.dynamo_output_graph # None \/ e.str # None
    THEN [st EXCEPT !.ok = @ + 1]
    ELSE st

CountOkWrapping(st, e) == [st EXCEPT !.ok = (@ + 1) % 2]

\* stats.ok += 1 (line 350): every record that passed the rank filter
CountOk(st, e) == [st EXCEPT !.ok = @ + 1]

GraphTruthy(e) == e.dynamo_output_graph = Some(TRUE)

\* if let Some(_r) = e.dynamo_output_graph (line 360)
GraphPresent(e) == e.dynamo_output_graph # None

(***************************************************************************)
(* The body of the loop for a record that passed the rank filter (lines    *)
(* 313-365), as the new values of the state it writes.  `it` is the        *)
(* iterator after iter.next() yielded the record's line.                   *)
(***************************************************************************)
Process(e, ls, it, st, trie, table, dir, f, calls) ==
    LET compile_id_dir == CompileIdDir(e.compile_id)
        f1 == CreateDirAll(f, compile_id_dir)
        calls1 == Append(calls, [op |-> "create_dir_all", path |-> compile_id_dir])
        dir1 == OrDefault(dir, e.compile_id)
        r == IF e.has_payload # None
             THEN Reassemble(ls, it, "", TRUE)
             ELSE [iter |-> it, payload |-> ""]
        bad == e.has_payload # None /\ Md5Mismatch(e.has_payload[1], r.payload)
        st1 == CountOk([st EXCEPT !.fail_payload_md5 = IF bad THEN @ + 1 ELSE @], e)
        trie1 == IF e.compile_stack # None
                 THEN insert(trie, e.compile_stack[1], "* ")
                 ELSE trie
        table1 == IF e.str # None
                  THEN Insert(table, e.str[1][2], e.str[1][1])
                  ELSE table
        graph == GraphPresent(e)
        path == Join(compile_id_dir, "dynamo_output_graph.txt")
    IN  [iter |-> r.iter,
         payload |-> r.payload,
         stats |-> st1,
         stack_trie |-> trie1,
         INTERN_TABLE |-> table1,
         directory |-> IF graph THEN [dir1 EXCEPT ![e.compile_id] = Append(@, path)]
                       ELSE dir1,
         fs |-> IF graph THEN WriteFile(f1, path, r.payload) ELSE f1,
         sink |-> IF graph
                  THEN Append(calls1, [op |-> "write", path |-> path, data |-> r.payload])
                  ELSE calls1]

(***************************************************************************)
(* The state after construction (lines 246-262) over the files of a line   *)
(* set L of at most n lines.                                               *)
(***************************************************************************)
InitOver(L, n) ==
    /\ lines \in SeqsUpTo(L, n)
    /\ iter = 0
    /\ pc = "loop"
    /\ stats = [ok |-> 0, other_rank |-> 0, fail_glog |-> 0, fail_json |-> 0,
                fail_payload_md5 |-> 0]
    /\ expected_rank = None
    /\ stack_trie = <<DefaultNode>>
    /\ INTERN_TABLE = <<>>
    /\ directory = <<>>
    /\ fs = [dirs |-> {}, files |-> <<>>]
    /\ payload = ""
    /\ sink = <<>>
    /\ log = <<>>
    /\ report = None

(***************************************************************************)
(* One iteration of `while let Some(line) = iter.next()`, by its outcome.  *)
(***************************************************************************)
FailGlogSkipsContinuation ==
    /\ pc = "loop" /\ iter < Len(lines)
    /\ captures(lines[iter + 1]) = None
    /\ stats' = [stats EXCEPT !.fail_glog = @ + 1]
    /\ iter' = Reassemble(lines, iter + 1, "", TRUE).iter
    /\ log' = Append(log, [line |-> iter + 1, outcome |-> "fail_glog", cont |-> 0])
    /\ UNCHANGED <<lines, pc, expected_rank, stack_trie, INTERN_TABLE, directory,
                   fs, payload, sink, report>>

\* lines 272-275: the header does not match
FailGlog ==
    /\ pc = "loop" /\ iter < Len(lines)
    /\ captures(lines[iter + 1]) = None
    /\ stats' = [stats EXCEPT !.fail_glog = @ + 1]
    /\ iter' = iter + 1
    /\ log' = Append(log, [line |-> iter + 1, outcome |-> "fail_glog", cont |-> 0])
    /\ UNCHANGED <<lines, pc, expected_rank, stack_trie, INTERN_TABLE, directory,
                   fs, payload, sink, report>>

FailJsonCountsTwice ==
    /\ pc = "loop" /\ iter < Len(lines)
    /\ captures(lines[iter + 1]) # None
    /\ ~from_str(captures(lines[iter + 1])[1]).ok
    /\ stats' = [stats EXCEPT !.fail_json = @ + 1, !.fail_glog = @ + 1]
    /\ iter' = iter + 1
    /\ log' = Append(log, [line |-> iter + 1, outcome |-> "fail_json", cont |-> 0])
    /\ UNCHANGED <<lines, pc, expected_rank, stack_trie, INTERN_TABLE, directory,
                   fs, payload, sink, report>>

\* lines 287-296: the payload is no Envelope
FailJson ==
    /\ pc = "loop" /\ iter < Len(lines)
    /\ captures(lines[iter + 1]) # None
    /\ ~from_str(captures(lines[iter + 1])[1]).ok
    /\ stats' = [stats EXCEPT !.fail_json = @ + 1]
    /\ iter' = iter + 1
    /\ log' = Append(log, [line |-> iter + 1, outcome |-> "fail_json", cont |-> 0])
    /\ UNCHANGED <<lines, pc, expected_rank, stack_trie, INTERN_TABLE, directory,
                   fs, payload, sink, report>>

\* lines 298-304: a record of another rank
OtherRank ==
    /\ pc = "loop" /\ iter < Len(lines)
    /\ captures(lines[iter + 1]) # None
    /\ \E d \in {from_str(captures(lines[iter + 1])[1])} :
          d.ok /\ RankRejects(expected_rank, d.val.rank)
    /\ stats' = [stats EXCEPT !.other_rank = @ + 1]
    /\ iter' = iter + 1
    /\ log' = Append(log, [line |-> iter + 1, outcome |-> "other_rank", cont |-> 0])
    /\ UNCHANGED <<lines, pc, expected_rank, stack_trie, INTERN_TABLE, directory,
                   fs, payload, sink, report>>

\* lines 305-365: a record that passes the rank filter
Survive ==
    /\ pc = "loop" /\ iter < Len(lines)
    /\ captures(lines[iter + 1]) # None
    /\ \E d \in {from_str(captures(lines[iter + 1])[1])} :
          /\ d.ok
          /\ ~RankRejects(expected_rank, d.val.rank)
          /\ expected_rank' = AdoptRank(expected_rank, d.val.rank)
          /\ \E n \in {Process(d.val, lines, iter + 1, stats, stack_trie,
                                INTERN_TABLE, directory, fs, sink)} :
                /\ iter' = n.iter
                /\ payload' = n.payload
                /\ stats' = n.stats
                /\ stack_trie' = n.stack_trie
                /\ INTERN_TABLE' = n.INTERN_TABLE
                /\ directory' = n.directory
                /\ fs' = n.fs
                /\ sink' = n.sink
                /\ log' = Append(log, [line |-> iter + 1, outcome |-> "ok",
                                       cont |-> n.iter - (iter + 1)])
    /\ UNCHANGED <<lines, pc, report>>

FinishAtAnyLine ==
    /\ pc = "loop"
    /\ pc' = "done"
    /\ report' = Some([directory |->
                          {<<IF k = None THEN "(unknown)" ELSE CompileIdLabel(k[1]),
                             directory[k]>> : k \in DOMAIN directory},
                       stack_trie_html |-> fmt(stack_trie, INTERN_TABLE),
                       stats |-> stats])
    /\ UNCHANGED <<lines, iter, stats, expected_rank, stack_trie, INTERN_TABLE,
                   directory, fs, payload, sink, log>>

FinishBeforeInterning ==
    /\ pc = "loop" /\ iter = Len(lines)
    /\ pc' = "done"
    /\ report' = Some([directory |->
                          {<<IF k = None THEN "(unknown)" ELSE CompileIdLabel(k[1]),
                             directory[k]>> : k \in DOMAIN directory},
                       stack_trie_html |-> fmt(stack_trie, <<>>),
                       stats |-> stats])
    /\ UNCHANGED <<lines, iter, stats, expected_rank, stack_trie, INTERN_TABLE,
                   directory, fs, payload, sink, log>>

\* lines 367-382: end of input; stats go to stderr, the directory labels (in
\* the hash map's order, which the model leaves out) and the rendered trie to
\* the index context
Finish ==
    /\ pc = "loop" /\ iter = Len(lines)
    /\ pc' = "done"
    /\ report' = Some([directory |->
                          {<<IF k = None THEN "(unknown)" ELSE CompileIdLabel(k[1]),
                             directory[k]>> : k \in DOMAIN directory},
                       stack_trie_html |-> fmt(stack_trie, INTERN_TABLE),
                       stats |-> stats])
    /\ UNCHANGED <<lines, iter, stats, expected_rank, stack_trie, INTERN_TABLE,
                   directory, fs, payload, sink, log>>

Next == FailGlog \/ FailJson \/ OtherRank \/ Survive \/ Finish

(***************************************************************************)
(* The header step alone (lines 264-285) on lines given as characters:     *)
(* the line is counted as fail_glog, or its payload slice is taken.        *)
(***************************************************************************)
MatchHeader ==
    /\ pc = "match" /\ iter < Len(lines)
    /\ \E caps \in {re_glog_captures(lines[iter + 1])} :
          IF caps = None
          THEN /\ stats' = [stats EXCEPT !.fail_glog = @ + 1]
               /\ payload' = payload
               /\ log' = Append(log, [line |-> iter + 1, outcome |-> "fail_glog",
                                      cont |-> 0])
          ELSE /\ stats' = stats
               /\ payload' = SubSeq(lines[iter + 1], caps[1], Len(lines[iter + 1]))
               /\ log' = Append(log, [line |-> iter + 1, outcome |-> "matched",
                                      cont |-> 0])
    /\ iter' = iter + 1
    /\ UNCHANGED <<lines, pc, expected_rank, stack_trie, INTERN_TABLE, directory,
                   fs, sink, report>>

NextHeader == MatchHeader

(***************************************************************************)
(* Specifications: the same loop over different sets of input files.       *)
(***************************************************************************)
Lines == {L_badsev, L_tab_graph, L_tab_record, R_badjson, R_empty,
          R_rank0_stack, R_rank0_str, R_rank0_cid, R_rank0_graph,
          R_rank0_graph_flip, R_rank0_graph_unknown, R_rank1_stack,
          R_rank1_graph}
Init == InitOver(Lines, MaxLines)
Spec == Init /\ [][Next]_vars

RankLines == {L_noise, R_badtype, R_empty, R_rank2, R_rank2_stack, R_rank5,
              R_rank5_str}
InitRank == InitOver(RankLines, MaxRankLines)
SpecRank == InitRank /\ [][Next]_vars

PayloadLines == {L_noise, L_tab_abc, L_tab_def, L_tab_empty, R_badjson, P_hash,
                 P_hash_rank1, P_stack}
InitPayload == InitOver(PayloadLines, MaxPayloadLines)
SpecPayload == InitPayload /\ [][Next]_vars

ChecksumLines == {L_noise, L_tab_hello, R_badjson, K_good, K_flip, K_upper, K_odd,
                  K_long, K_short, K_emptyhash, K_rank1}
InitChecksum == InitOver(ChecksumLines, MaxChecksumLines)
SpecChecksum == InitChecksum /\ [][Next]_vars

TrieLines == {L_noise, R_badjson, T_ABC, T_ABD, T_A, T_A2B, T_A3, T_nil, T_rank1}
InitTrie == InitOver(TrieLines, MaxTrieLines)
SpecTrie == InitTrie /\ [][Next]_vars

InternLines == {L_noise, R_badjson, N_foo7, N_bar7, N_link8, N_amp8, N_rank1_7, N_stack_AC,
                N_stack_A2, N_stack_str}
InitIntern == InitOver(InternLines, MaxInternLines)
SpecIntern == InitIntern /\ [][Next]_vars

(***************************************************************************)
(* Lines for the header step, character by character: an optional prefix,  *)
(* a severity letter, the time stamp with the character between seconds    *)
(* and microseconds, thread id and source path, line number, "] " and the  *)
(* rest of the line.                                                       *)
(***************************************************************************)
HeaderPrefixes == {<<>>, <<"\t">>, <<"#">>}
HeaderLevels == {"V", "C", "X"}
HeaderSeparators == {".", ","}
HeaderThreadPaths == {<<"7", " ", "a">>, <<"7", "1", "a">>, <<"a">>, <<"7">>}
HeaderLineNumbers == {<<"4", "2">>, <<>>}
HeaderRests == SeqsUpTo({"{", "]", " "}, MaxRestLen)

HeaderLine(pre, lev, sep, tp, no, rest) ==
    pre \o <<lev>> \o <<"0", "1", "0", "2", " ", "0", "3", ":", "0", "4", ":", "0", "5">>
        \o <<sep>> \o <<"0", "0", "0", "0", "0", "6", " ">>
        \o tp \o <<":">> \o no \o <<"]", " ">> \o rest

HeaderInputs ==
    {HeaderLine(pre, lev, sep, tp, no, rest) :
        pre \in HeaderPrefixes, lev \in HeaderLevels, sep \in HeaderSeparators,
        tp \in HeaderThreadPaths, no \in HeaderLineNumbers, rest \in HeaderRests}

InitHeader ==
    /\ lines \in {<<l>> : l \in HeaderInputs}
    /\ iter = 0
    /\ pc = "match"
    /\ stats = [ok |-> 0, other_rank |-> 0, fail_glog |-> 0, fail_json |-> 0,
                fail_payload_md5 |-> 0]
    /\ expected_rank = None
    /\ stack_trie = <<DefaultNode>>
    /\ INTERN_TABLE = <<>>
    /\ directory = <<>>
    /\ fs = [dirs |-> {}, files |-> <<>>]
    /\ payload = <<>>
    /\ sink = <<>>
    /\ log = <<>>
    /\ report = None
SpecHeader == InitHeader /\ [][NextHeader]_vars

(***************************************************************************)
(* The pass as a running program: the loop keeps taking its next step, so  *)
(* the next-state relation is weakly fair.                                 *)
(***************************************************************************)
LiveLines == {L_noise, L_tab_abc, L_tab_def, R_badjson, P_hash, P_hash_rank1, P_stack}
InitLive == InitOver(LiveLines, MaxLiveLines)
SpecLive == InitLive /\ [][Next]_vars /\ WF_vars(Next)

(***************************************************************************)
(* Properties.                                                             *)
(***************************************************************************)
\* the line passes header matching and JSON decoding
Decodable(line) == captures(line) # None /\ from_str(captures(line)[1]).ok

\* the Envelope of a decodable line
EnvOf(line) == from_str(captures(line)[1]).val

\* the iteration about to run pulls a decodable line
PullsRecord == pc = "loop" /\ iter < Len(lines) /\ Decodable(lines[iter + 1])

\* the positions of the decodable lines among the first n lines of the file
DecodableUpTo(n) == {i \in 1..n : Decodable(lines[i])}

Min(S) == CHOOSE i \in S : \A j \in S : i <= j

\* the rank of the first decodable line of the file
BaselineOfFile == EnvOf(lines[Min(DecodableUpTo(Len(lines)))]).rank

C1_Established ==
    IF DecodableUpTo(iter) = {} THEN expected_rank = None
    ELSE expected_rank = Some(BaselineOfFile)

C1_Latch == [][expected_rank # None => expected_rank' = expected_rank]_vars

\* C1: expected_rank is None until the first line that passes header matching
\* and JSON decoding has been pulled; from then on it is Some(that record's
\* rank), absent or not, and no later step changes it.
C1_RankBaselineLatch == []C1_Established /\ C1_Latch

\* a failing line came first, the baseline was taken from a record without a
\* rank, and a record of another rank was seen after it
C1_Witness ==
    /\ Len(log) = 3 /\ log[1].outcome = "fail_json"
    /\ expected_rank = Some(None)
    /\ log[3].outcome = "other_rank"

\* C2: a step that pulls a decodable record whose rank differs from the
\* established baseline (present vs. absent included) adds one to other_rank,
\* consumes that one line and changes nothing else.
C2_RankRejectionFrame ==
    [][(/\ PullsRecord
        /\ expected_rank # None
        /\ EnvOf(lines[iter + 1]).rank # expected_rank[1])
       => /\ stats' = [stats EXCEPT !.other_rank = @ + 1]
          /\ iter' = iter + 1
          /\ UNCHANGED <<expected_rank, stack_trie, INTERN_TABLE, directory, fs,
                         payload, sink, pc>>]_vars

\* a record of another rank that declares a payload and an artifact was
\* rejected, the continuation line after it is still to be pulled, and an
\* absent rank was rejected against a present baseline
C2_Witness ==
    /\ Len(log) = 2 /\ log[2].outcome = "other_rank"
    /\ stats.ok = 1
    /\ EnvOf(lines[2]).dynamo_output_graph # None
    /\ EnvOf(lines[2]).has_payload # None
    /\ iter = 2 /\ Len(lines) = 3 /\ lines[3].tab
    /\ fs.files = <<>>

\* C3: over a file without continuation lines, ok is the number of decodable
\* records pulled so far whose rank equals the rank of the first decodable
\* record, whatever event fields they carry, and other_rank the number of
\* those whose rank differs.
C3_OkCountsBaselineRank ==
    (\A i \in 1..Len(lines) : ~lines[i].tab)
    => /\ stats.ok = Cardinality({i \in DecodableUpTo(iter) :
                                     EnvOf(lines[i]).rank = BaselineOfFile})
       /\ stats.other_rank = Cardinality({i \in DecodableUpTo(iter) :
                                             EnvOf(lines[i]).rank # BaselineOfFile})

\* ranks [2, 2, 5, 2], the second record carrying a compile_stack
C3_Witness ==
    /\ pc = "done" /\ Len(lines) = 4
    /\ \A i \in 1..4 : Decodable(lines[i])
    /\ [i \in 1..4 |-> EnvOf(lines[i]).rank] = <<Some(2), Some(2), Some(5), Some(2)>>
    /\ EnvOf(lines[2]).compile_stack # None
    /\ stats.ok = 3 /\ stats.other_rank = 1

\* the iteration about to run pulls a record that passes the rank filter
PullsSurvivor ==
    /\ PullsRecord
    /\ (expected_rank = None \/ EnvOf(lines[iter + 1]).rank = expected_rank[1])

\* the length of the maximal run of lines starting with a tab after line p
TabRun(p) ==
    CHOOSE n \in 0..(Len(lines) - p) :
        /\ \A k \in 1..n : lines[p + k].tab
        /\ (p + n = Len(lines) \/ ~lines[p + n + 1].tab)

\* the text of a line after its first character
TextAfterFirst(line) == line.hdr \o line.rest

\* the strings of ss with one newline between neighbours
RECURSIVE JoinNewline(_)
JoinNewline(ss) ==
    IF ss = <<>> THEN ""
    ELSE IF Len(ss) = 1 THEN ss[1]
    ELSE ss[1] \o "\n" \o JoinNewline(Tail(ss))

\* C4: a surviving record with has_payload consumes the maximal run of N
\* following lines that start with a tab, its payload is their text without
\* the tab joined by N-1 newlines (empty for N = 0), and the line after the
\* run is the next one pulled; without has_payload no following line is
\* consumed.
C4_PayloadReassembly ==
    [][PullsSurvivor
       => LET e == EnvOf(lines[iter + 1])
              N == IF e.has_payload # None THEN TabRun(iter + 1) ELSE 0
          IN  /\ iter' = iter + 1 + N
              /\ payload' = JoinNewline([k \in 1..N |->
                                            TextAfterFirst(lines[iter + 1 + k])])]_vars

\* "\tabc", "\tdef", "ghi" after a record with has_payload: the payload is
\* "abc\ndef" and "ghi" was the next line handed to the header matcher
C4_Witness ==
    /\ Len(lines) = 4 /\ lines[2] = L_tab_abc /\ lines[3] = L_tab_def
    /\ lines[4] = L_noise
    /\ log = <<[line |-> 1, outcome |-> "ok", cont |-> 2],
               [line |-> 4, outcome |-> "fail_glog", cont |-> 0]>>
    /\ payload = "abc\ndef"

\* C5: a step that pulls a line failing the header match adds one to
\* fail_glog, one that pulls a line matching the header but failing the JSON
\* decode adds one to fail_json; either consumes that one line and changes
\* nothing else, the rank baseline included.
C5_FailuresFrame ==
    [][(pc = "loop" /\ iter < Len(lines) /\ ~Decodable(lines[iter + 1]))
       => /\ stats' = IF captures(lines[iter + 1]) = None
                      THEN [stats EXCEPT !.fail_glog = @ + 1]
                      ELSE [stats EXCEPT !.fail_json = @ + 1]
          /\ iter' = iter + 1
          /\ UNCHANGED <<expected_rank, stack_trie, INTERN_TABLE, directory, fs,
                         payload, sink, pc>>]_vars

\* a header failure and a decode failure happened before any record decoded,
\* a continuation line follows unconsumed and the baseline is still unset
C5_Witness ==
    /\ Len(log) = 2
    /\ log[1].outcome = "fail_glog" /\ log[2].outcome = "fail_json"
    /\ iter = 2 /\ Len(lines) = 3 /\ lines[3].tab
    /\ expected_rank = None

\* the lowercase hex text of a byte string
HexEncode(bs) ==
    [k \in 1..(2 * Len(bs)) |->
        HexLower[(IF k % 2 = 1 THEN bs[(k + 1) \div 2] \div 16
                  ELSE bs[k \div 2] % 16) + 1]]

\* a declared hash that base16 decoding into the digest buffer refuses
FailsHexDecoding(h) ==
    \/ Len(h) % 2 = 1
    \/ Len(h) > 2 * DigestLen
    \/ \E k \in 1..Len(h) : \A i \in 1..Len(HexLower) : h[k] # HexLower[i]

DirNameOf(cid) ==
    CASE cid = None -> "unknown"
      [] cid = Some([frame_id |-> 1, frame_compile_id |-> 0, attempt |-> 0]) -> "1_0_0"
      [] cid = Some([frame_id |-> 2, frame_compile_id |-> 0, attempt |-> 1]) -> "2_0_1"

LabelOf(cid) ==
    CASE cid = None -> "(unknown)"
      [] cid = Some([frame_id |-> 1, frame_compile_id |-> 0, attempt |-> 0]) -> "[1/0]"
      [] cid = Some([frame_id |-> 2, frame_compile_id |-> 0, attempt |-> 1]) -> "[2/0_1]"

\* the paths the index holds for a compile id, none when it has no entry
PathsOf(dir, cid) == IF cid \in DOMAIN dir THEN dir[cid] ELSE <<>>

C7_Step ==
    [][(PullsSurvivor /\ EnvOf(lines[iter + 1]).dynamo_output_graph # None)
       => \E e \in {EnvOf(lines[iter + 1])} :
          \E path \in {DirNameOf(e.compile_id) \o "/dynamo_output_graph.txt"} :
            /\ DirNameOf(e.compile_id) \in fs'.dirs
            /\ payload' = JoinNewline(
                   [k \in 1..(IF e.has_payload # None THEN TabRun(iter + 1) ELSE 0)
                       |-> TextAfterFirst(lines[iter + 1 + k])])
            /\ DOMAIN fs'.files = DOMAIN fs.files \cup {path}
            /\ fs'.files[path] = payload'
            /\ \A q \in DOMAIN fs.files \ {path} : fs'.files[q] = fs.files[q]
            /\ DOMAIN directory' = DOMAIN directory \cup {e.compile_id}
            /\ directory'[e.compile_id] = Append(PathsOf(directory, e.compile_id), path)
            /\ \A k \in DOMAIN directory \ {e.compile_id} :
                   directory'[k] = directory[k]]_vars

C7_Report ==
    pc = "done"
    => report[1].directory = {<<LabelOf(k), directory[k]>> : k \in DOMAIN directory}

\* C7: a surviving record in which dynamo_output_graph is present, true or
\* false, writes its reassembled payload to dynamo_output_graph.txt in its
\* compile-id subdirectory ("unknown" without a compile id) and appends that
\* relative path to its compile id's entry of the directory index; the report
\* gets the index under the compile ids' labels.
C7_ArtifactEmission == []C7_Report /\ C7_Step

\* compile_id {1,0,0} with payload "graph body"
C7_Witness ==
    /\ pc = "done"
    /\ lines = <<R_rank0_graph, L_tab_graph>>
    /\ fs.files = ("1_0_0/dynamo_output_graph.txt" :> "graph body")
    /\ report[1].directory = {<<"[1/0]", <<"1_0_0/dynamo_output_graph.txt">>>>}

\* C8 as stated: every key of the directory index has a non-empty path list.
C8_LazyDirectoryIndex == \A k \in DOMAIN directory : directory[k] # <<>>

\* the surviving records pulled so far
Survivors == SelectSeq(log, LAMBDA en : en.outcome = "ok")

CallsOf(op) == SelectSeq(sink, LAMBDA c : c.op = op)

\* C9 as stated: create_dir_all and fs::write are each called once per
\* surviving record that carries dynamo_output_graph and never otherwise.
C9_SinkCallsOncePerGraphRecord ==
    LET flagged == SelectSeq(Survivors,
                       LAMBDA en : EnvOf(lines[en.line]).dynamo_output_graph # None)
    IN  /\ Len(CallsOf("write")) = Len(flagged)
        /\ Len(CallsOf("create_dir_all")) = Len(flagged)

\* the <<path, node>> pairs of the subtree of `node`, whose own path is `path`
RECURSIVE PathsFrom(_, _, _)
PathsFrom(trie, node, path) ==
    {<<path, node>>} \cup
    UNION {PathsFrom(trie, trie[node].children[i].node,
                     Append(path, trie[node].children[i].frame)) :
           i \in 1..Len(trie[node].children)}

\* the stacks inserted so far: compile_stack of the surviving records, in order
InsertedStacks ==
    LET withStack == SelectSeq(Survivors,
                         LAMBDA en : EnvOf(lines[en.line]).compile_stack # None)
    IN  [i \in 1..Len(withStack) |-> EnvOf(lines[withStack[i].line]).compile_stack[1]]

Prefixes(s) == {SubSeq(s, 1, k) : k \in 0..Len(s)}

\* C10: after any sequence of inserts every arena node is reached by exactly
\* one path from the root, no node has two children with equal frames (all of
\* filename id, line and name equal), the paths are exactly the prefixes of
\* the inserted stacks, and the node at the end of a stack holds one marker
\* per insertion of that stack (none when the stack was only passed through).
C10_TrieSharesPrefixes ==
    \E P \in {PathsFrom(stack_trie, 1, <<>>)} :
    \E ins \in {InsertedStacks} :
        /\ Cardinality(P) = Len(stack_trie)
        /\ \A p, q \in P : p[1] = q[1] => p[2] = q[2]
        /\ \A n \in 1..Len(stack_trie) :
             \A i, j \in 1..Len(stack_trie[n].children) :
                stack_trie[n].children[i].frame = stack_trie[n].children[j].frame
                => i = j
        /\ {p[1] : p \in P} = {<<>>} \cup UNION {Prefixes(ins[i]) : i \in 1..Len(ins)}
        /\ \A p \in P :
             stack_trie[p[2]].terminal =
                [k \in 1..Cardinality({i \in 1..Len(ins) : ins[i] = p[1]}) |-> "* "]

\* [A,B,C], [A,B,D], [A,B,C]: A has the single child B, B the children C and
\* D, and C holds two markers
C10_Witness ==
    /\ Len(lines) = 3 /\ iter = 3
    /\ lines = <<T_ABC, T_ABD, T_ABC>>
    /\ Len(stack_trie) = 5
    /\ stack_trie[1].children = <<[frame |-> [filename |-> 7, line |-> 1, name |-> "<module>"],
                                   node |-> 2]>>
    /\ stack_trie[2].children = <<[frame |-> [filename |-> 7, line |-> 2, name |-> "g"],
                                   node |-> 3]>>
    /\ stack_trie[3].children = <<[frame |-> [filename |-> 8, line |-> 3, name |-> "h"],
                                   node |-> 4],
                                  [frame |-> [filename |-> 8, line |-> 3, name |-> "k"],
                                   node |-> 5]>>
    /\ stack_trie[4].terminal = <<"* ", "* ">>
    /\ stack_trie[5].terminal = <<"* ">>

\* the filename ids that occur in the catalogue, registered or not
InternIds == {7, 8, 9}

\* the surviving records pulled so far that register `id`, in file order
RegistrationsOf(id) ==
    SelectSeq(Survivors,
              LAMBDA en : /\ EnvOf(lines[en.line]).str # None
                          /\ EnvOf(lines[en.line]).str[1][2] = id)

\* the text of the last surviving registration of `id`, None when there is none
LastRegistered(id) ==
    LET regs == RegistrationsOf(id)
    IN  IF regs = <<>> THEN None
        ELSE Some(EnvOf(lines[regs[Len(regs)].line]).str[1][1])

\* C11: after any sequence of lines the intern table maps exactly the ids
\* registered by surviving str records, each to the text of the last such
\* record; resolve gives that text, and "(unknown)" for an id no surviving
\* record registered (records rejected by the rank filter register nothing).
C11_InternLastWriteWins ==
    \A id \in InternIds :
        \E last \in {LastRegistered(id)} :
            IF last = None
            THEN id \notin DOMAIN INTERN_TABLE /\ resolve(INTERN_TABLE, id) = "(unknown)"
            ELSE id \in DOMAIN INTERN_TABLE /\ resolve(INTERN_TABLE, id) = last[1]

\* id 7 registered twice with a str record of rank 1 rejected in between: the
\* second text replaced the first, the rejected text never appears, and ids 8
\* and 9 resolve to the placeholder
C11_Witness ==
    /\ lines = <<N_foo7, N_rank1_7, N_bar7>> /\ iter = 3
    /\ stats.other_rank = 1 /\ stats.ok = 2
    /\ resolve(INTERN_TABLE, 7) = "bar.py"
    /\ resolve(INTERN_TABLE, 8) = "(unknown)"
    /\ resolve(INTERN_TABLE, 9) = "(unknown)"

\* the intern table the whole file leaves behind: every id that a surviving
\* record registered, with the text of the last such record
FinalTable ==
    [id \in {i \in InternIds : LastRegistered(i) # None} |-> LastRegistered(id)[1]]

\* the frames held by the trie
FramesOf(trie) ==
    UNION {{trie[n].children[i].frame : i \in 1..Len(trie[n].children)} :
           n \in 1..Len(trie)}

\* C12: the frames in the trie are the frames of the inserted stacks with
\* their raw filename ids; nothing is rendered while lines remain; and the
\* rendering handed over at the end resolves every frame against the table
\* the whole file leaves behind, str records after the stack's own record
\* included.
C12_DeferredResolution ==
    /\ FramesOf(stack_trie) =
          UNION {{InsertedStacks[i][k] : k \in 1..Len(InsertedStacks[i])} :
                 i \in 1..Len(InsertedStacks)}
    /\ \A fr \in FramesOf(stack_trie) : fr.filename \in InternIds
    /\ report # None =>
          /\ iter = Len(lines)
          /\ \E final \in {FinalTable} :
                /\ INTERN_TABLE = final
                /\ report[1].stack_trie_html = fmt(stack_trie, final)

\* the stack [A, C] is inserted first and the texts of its ids 7 and 8 are
\* registered by the two lines after it; the rendering shows both texts
C12_Witness ==
    /\ lines = <<N_stack_AC, N_foo7, N_link8>>
    /\ pc = "done"
    /\ report[1].stack_trie_html =
          "<pre>  foo.py:1 in &lt;module&gt;\n  * torch/nn.py:3 in h\n</pre>"

\* The header grammar of the Header Matcher, read at the start of the line:
\* severity letter, MMDD, HH:MM:SS, '.', six digits, thread id, source path,
\* ':', line number, "] ".  HeaderEnd(l) is the set of positions of the space
\* of "] " for which l begins with such a header (empty or a single position).
SpecStamp == [Stamp EXCEPT ![15] = Lit(".")]

HeaderEnd(l) ==
    {e \in (Len(SpecStamp) + 1)..Len(l) :
        /\ \A k \in 1..Len(SpecStamp) : ClassMatches(SpecStamp[k], l[k])
        /\ l[e] = " " /\ l[e - 1] = "]"
        /\ \E c \in (Len(SpecStamp) + 3)..(e - 3) :
              /\ l[c] = ":"
              /\ IsDigit(l[Len(SpecStamp) + 1])
              /\ \A k \in (Len(SpecStamp) + 1)..(c - 1) : l[k] # ":"
              /\ \A k \in (c + 1)..(e - 2) : IsDigit(l[k])}

\* the header step is about to run
Matching == pc = "match" /\ iter < Len(lines)

\* C13: for a line that begins with a well-formed header followed by a
\* non-empty rest, the payload is the text after the header's "] " up to the
\* end of the line and the line is not counted; a line that does not begin
\* with a well-formed header is counted as fail_header_match.
C13_HeaderExtraction ==
    [][Matching =>
          \E l \in {lines[iter + 1]} :
          \E ends \in {HeaderEnd(l)} :
             IF ends = {}
             THEN stats' = [stats EXCEPT !.fail_glog = @ + 1]
             ELSE (\A e \in ends : e < Len(l))
                  => /\ \A e \in ends : payload' = SubSeq(l, e + 1, Len(l))
                     /\ stats' = stats]_vars

ZeroStats == [ok |-> 0, other_rank |-> 0, fail_glog |-> 0, fail_json |-> 0,
              fail_payload_md5 |-> 0]

Counters == DOMAIN ZeroStats

\* the branch the loop takes on a line, told from the line and the rank
\* baseline alone
Classify(line, expected) ==
    IF captures(line) = None THEN "fail_glog"
    ELSE IF ~from_str(captures(line)[1]).ok THEN "fail_json"
    ELSE IF expected # None /\ expected[1] # EnvOf(line).rank THEN "other_rank"
    ELSE "ok"

\* C14: in every step each counter keeps its value or grows by one; the
\* branch taken is told by the line and the rank baseline alone; and the step
\* of a surviving record leaves everything but the counters as it would with
\* all counters at zero, adding to each counter what it would add then.
C14_StatsMonotone ==
    [][/\ \A c \in Counters : stats'[c] \in {stats[c], stats[c] + 1}
       /\ (pc = "loop" /\ iter < Len(lines))
          => log'[Len(log')].outcome = Classify(lines[iter + 1], expected_rank)
       /\ PullsSurvivor
          => \E z \in {Process(EnvOf(lines[iter + 1]), lines, iter + 1, ZeroStats,
                               stack_trie, INTERN_TABLE, directory, fs, sink)} :
                /\ <<iter', payload', stack_trie', INTERN_TABLE', directory', fs', sink'>>
                      = <<z.iter, z.payload, z.stack_trie, z.INTERN_TABLE, z.directory,
                          z.fs, z.sink>>
                /\ \A c \in Counters : stats'[c] = stats[c] + z.stats[c]]_vars

\* three lines moved four counters: a record with a flipped hash (ok and
\* fail_payload_md5 in one step), undecodable JSON, and a record of rank 1
C14_Witness ==
    /\ lines = <<K_flip, R_badjson, K_rank1>> /\ iter = 3
    /\ stats = [ok |-> 1, other_rank |-> 1, fail_glog |-> 0, fail_json |-> 1,
                fail_payload_md5 |-> 1]

\* A node of the trie is named by the child positions on the way to it from
\* the root: <<2, 1>> is the first child of the root's second child.
RECURSIVE NodeAt(_, _, _)
NodeAt(trie, node, ip) ==
    IF ip = <<>> THEN node
    ELSE NodeAt(trie, trie[node].children[Head(ip)].node, Tail(ip))

RECURSIVE IndexPathsFrom(_, _, _)
IndexPathsFrom(trie, node, ip) ==
    UNION {{Append(ip, i)} \cup IndexPathsFrom(trie, trie[node].children[i].node,
                                               Append(ip, i)) :
           i \in 1..Len(trie[node].children)}

\* depth-first order with children in order of first insertion: a node comes
\* before its descendants, an earlier child and its subtree before a later one
Before(p, q) ==
    \/ Len(p) < Len(q) /\ SubSeq(q, 1, Len(p)) = p
    \/ \E k \in 1..Min({Len(p), Len(q)}) :
          /\ SubSeq(p, 1, k - 1) = SubSeq(q, 1, k - 1)
          /\ p[k] < q[k]

Branching(trie, node) == Len(trie[node].children) > 1

\* the line of the node at ip: the indent is 2 for every node above its
\* parent (the root included) that has more than one child; the "- " marker
\* shows when the parent has more than one child; then the node's terminal
\* markers, unseparated, and the frame text
RowOf(trie, table, ip) ==
    LET k == Len(ip)
        parent == NodeAt(trie, 1, SubSeq(ip, 1, k - 1))
        child == trie[parent].children[ip[k]]
        indent == 2 * Cardinality({j \in 1..(k - 1) :
                                      Branching(trie, NodeAt(trie, 1, SubSeq(ip, 1, j - 1)))})
    IN  Pad(indent) \o (IF Branching(trie, parent) THEN "- " ELSE "  ")
            \o JoinEmpty(trie[child.node].terminal)
            \o FrameDisplay(child.frame, table) \o "\n"

RECURSIVE RowsInOrder(_, _, _)
RowsInOrder(trie, table, S) ==
    IF S = {} THEN ""
    ELSE LET first == CHOOSE p \in S : \A q \in S \ {p} : Before(p, q)
         IN  RowOf(trie, table, first) \o RowsInOrder(trie, table, S \ {first})

ExpectedRender(trie, table) ==
    "<pre>" \o RowsInOrder(trie, table, IndexPathsFrom(trie, 1, <<>>)) \o "</pre>"

\* C15: the rendering is one line per non-root node, in depth-first order
\* with children in order of first insertion; a child of a node with more
\* than one child carries "- " and its subtree is indented by 2 more, the
\* child of a single-child node carries no marker and its subtree keeps the
\* indent; the node's terminal markers stand unseparated directly before its
\* frame text.
C15_RenderCollapsesChains ==
    \E want \in {ExpectedRender(stack_trie, INTERN_TABLE)} :
        /\ fmt(stack_trie, INTERN_TABLE) = want
        /\ report # None => report[1].stack_trie_html = want

\* [A,B,C], [A,B,D], [A3]: the root and B branch, A has the single child B
C15_Witness ==
    /\ lines = <<T_ABC, T_ABD, T_A3>>
    /\ pc = "done"
    /\ report[1].stack_trie_html =
          "<pre>- (unknown):1 in &lt;module&gt;\n    (unknown):2 in g\n  - * (unknown):3 in h\n  - * (unknown):3 in k\n- * (unknown):5 in &lt;module&gt;\n</pre>"

\* the event actions a step performed: a trie insertion, an intern
\* registration, an artifact write
ActionsTaken ==
    {a \in {"insert", "register", "write"} :
        \/ a = "insert" /\ stack_trie' # stack_trie
        \/ a = "register" /\ INTERN_TABLE' # INTERN_TABLE
        \/ a = "write" /\ Len(SelectSeq(sink', LAMBDA c : c.op = "write"))
                            > Len(CallsOf("write"))}

\* C16: the step of a surviving record performs at most one of trie
\* insertion, intern registration and artifact write.
C16_OneEventPerRecord == [][PullsSurvivor => Cardinality(ActionsTaken) <= 1]_vars

\* C17: the step of a surviving record whose has_payload is the empty string
\* is the step of the same record without has_payload: fail_payload_md5 is
\* not incremented and no continuation line is consumed.
C17_EmptyHashMeansNoVerification ==
    [][(PullsSurvivor /\ EnvOf(lines[iter + 1]).has_payload = Some(<<>>))
       => /\ stats'.fail_payload_md5 = stats.fail_payload_md5
          /\ iter' = iter + 1
          /\ Process([EnvOf(lines[iter + 1]) EXCEPT !.has_payload = None], lines,
                     iter + 1, stats, stack_trie, INTERN_TABLE, directory, fs, sink)
               = [iter |-> iter', payload |-> payload', stats |-> stats',
                  stack_trie |-> stack_trie', INTERN_TABLE |-> INTERN_TABLE',
                  directory |-> directory', fs |-> fs', sink |-> sink']]_vars

\* the lines consumed so far are the lines of the log's iterations, each
\* followed by its continuation lines, in file order without gap or overlap
ConsumedInOrder ==
    /\ \A k \in 1..Len(log) :
          log[k].line = (IF k = 1 THEN 1 ELSE log[k - 1].line + log[k - 1].cont + 1)
    /\ iter = (IF log = <<>> THEN 0 ELSE log[Len(log)].line + log[Len(log)].cont)
    /\ iter <= Len(lines)

C18_State ==
    /\ ConsumedInOrder
    /\ pc = "done" => /\ iter = Len(lines)
                      /\ report # None
                      /\ report[1].stats = stats
                      /\ report[1].stack_trie_html = fmt(stack_trie, INTERN_TABLE)
                      /\ {d[2] : d \in report[1].directory}
                            = {directory[k] : k \in DOMAIN directory}
    /\ pc = "loop" => report = None

\* an iteration pulls the next line, consumes it and the tab lines directly
\* after it that it joins to the payload, and looks at no line beyond the one
\* after the last it consumed
C18_Step ==
    [][(pc = "loop" /\ iter < Len(lines))
       => /\ lines' = lines
          /\ iter' > iter
          /\ log'[Len(log')].line = iter + 1
          /\ \A i \in (iter + 2)..iter' : starts_with_tab(lines[i])
          /\ PullsSurvivor
             => \E seen \in {SubSeq(lines, 1, Min({Len(lines), iter' + 1}))} :
                   Process(EnvOf(lines[iter + 1]), seen, iter + 1, stats, stack_trie,
                           INTERN_TABLE, directory, fs, sink)
                     = [iter |-> iter', payload |-> payload', stats |-> stats',
                        stack_trie |-> stack_trie', INTERN_TABLE |-> INTERN_TABLE',
                        directory |-> directory', fs |-> fs', sink |-> sink']]_vars

\* C18: every iteration consumes at least one line, the lines are consumed
\* once each in file order, an iteration peeks at most one line past what it
\* consumes, and the loop reaches the end of the input, where the trie, the
\* directory index and the stats are handed to the reporter.
C18_PassTerminates == []C18_State /\ C18_Step /\ <>(pc = "done")

\* a record consumed one continuation line and left the line after it for
\* the next iteration; the pass ended with all three lines consumed
C18_Witness ==
    /\ lines = <<P_hash, L_tab_abc, L_noise>>
    /\ pc = "done" /\ iter = 3
    /\ log = <<[line |-> 1, outcome |-> "ok", cont |-> 1],
               [line |-> 3, outcome |-> "fail_glog", cont |-> 0]>>
    /\ report # None

\* the lines that iter.next() yielded, and the lines consumed otherwise
PulledLines == {log[k].line : k \in 1..Len(log)}
ContinuationLines == (1..iter) \ PulledLines

\* the number of iterations so far that ended in `outcome`
CountOf(outcome) == Len(SelectSeq(log, LAMBDA en : en.outcome = outcome))

\* C19: at every loop boundary the lines consumed are the lines classified,
\* one counter each (ok, other_rank, fail_glog, fail_json), plus the
\* continuation lines, which are tab lines taken by a surviving record that
\* declares a payload; and fail_payload_md5 never exceeds ok.
C19_LineAccounting ==
    /\ stats.ok = CountOf("ok")
    /\ stats.other_rank = CountOf("other_rank")
    /\ stats.fail_glog = CountOf("fail_glog")
    /\ stats.fail_json = CountOf("fail_json")
    /\ Cardinality(PulledLines) = Len(log)
    /\ iter = stats.ok + stats.other_rank + stats.fail_glog + stats.fail_json
                + Cardinality(ContinuationLines)
    /\ \A i \in ContinuationLines :
          /\ starts_with_tab(lines[i])
          /\ \E k \in 1..Len(log) :
                /\ log[k].outcome = "ok"
                /\ EnvOf(lines[log[k].line]).has_payload # None
                /\ log[k].line < i /\ i <= log[k].line + log[k].cont
    /\ stats.fail_payload_md5 <= stats.ok

\* four lines consumed: one surviving record, its two continuation lines and
\* one line that matched no header
C19_Witness ==
    /\ lines = <<P_hash, L_tab_abc, L_tab_def, L_noise>> /\ iter = 4
    /\ stats = [ok |-> 1, other_rank |-> 0, fail_glog |-> 1, fail_json |-> 0,
                fail_payload_md5 |-> 0]
    /\ ContinuationLines = {2, 3}

\* the number of terminal markers on the nodes n..Len(trie) of the arena
RECURSIVE MarkersFrom(_, _)
MarkersFrom(trie, n) ==
    IF n > Len(trie) THEN 0 ELSE Len(trie[n].terminal) + MarkersFrom(trie, n + 1)

\* C20: the terminal markers over all nodes are as many as the surviving
\* records that carried compile_stack; the root holds one marker per
\* surviving record with an empty compile_stack; and the rendering is that of
\* the same trie with the root's markers removed, so no root marker shows
\* (a trie that holds root markers only renders empty).
C20_MarkerConservation ==
    \E ins \in {InsertedStacks} :
        /\ MarkersFrom(stack_trie, 1) = Len(ins)
        /\ Len(stack_trie[1].terminal) = Cardinality({i \in 1..Len(ins) : ins[i] = <<>>})
        /\ (MarkersFrom(stack_trie, 2) = 0 /\ Len(stack_trie) = 1)
           => fmt(stack_trie, INTERN_TABLE) = "<pre></pre>"
        /\ report # None
           => report[1].stack_trie_html
                 = ExpectedRender([stack_trie EXCEPT ![1].terminal = <<>>], INTERN_TABLE)

\* two records with an empty stack and one with [A]: three markers, two of
\* them on the root, and only the marker of A in the rendering
C20_Witness ==
    /\ lines = <<T_nil, T_A, T_nil>>
    /\ pc = "done"
    /\ stack_trie[1].terminal = <<"* ", "* ">>
    /\ MarkersFrom(stack_trie, 1) = 3
    /\ report[1].stack_trie_html = "<pre>  * (unknown):1 in &lt;module&gt;\n</pre>"
====
